---- MODULE Spec2Model ----
(***************************************************************************)
(* A model of the photon ray tracer: the render pipeline (task queue,      *)
(* worker threads, pixel channel, display thread), the construction of     *)
(* the 4-ary BVH, the stack-based ray shooter, texture sampling, the       *)
(* import and evaluation of material graphs, and the shading of a ray.     *)
(***************************************************************************)
EXTENDS Integers, Sequences, FiniteSets, TLC

(***************************************************************************)
(* Bounds of the model.                                                    *)
(***************************************************************************)
MaxW == 2
MaxH == 1
MaxA == 1
MaxThreads == 2
MaxSamples == 4
PairMaxSamples == 2
MaxSeed == 1
MaxOrderW == 2
MaxOrderH == 2
MaxOrderSamples == 16
MaxObjects == 66
MaxPattern == 2
MaxRayObjects == 6
MaxSteps == 2
TriangleLeg == 3
MaxTexW == 3
MaxTexH == 3
HalfSteps == 2
MaxShift == 3
MaxLinks == 3
MaxContexts == 2
StackLimit == 6
MirrorLeg == 4
MirrorGap == 4
MaxRadius == 2
PromoteLayers == 5
MaxPath == 3
MaxSeedFactor == 3
MaxSeedThreads == 5

(***************************************************************************)
(* Program constants.                                                      *)
(***************************************************************************)
\* usize::trailing_zeros(0) on the 64-bit target
UsizeBits == 64
\* seed: u128, handed to Pcg32::from_seed as its 16 big-endian bytes
SeedBytes == 16
ByteBase == 256
\* let sample_size = 20;
SampleSize == 20
\* handle_ray(scene, rng, scene.camera.position, ray, 1.0, 1024, ray_tracer)
PrimaryBounces == 1024

VARIABLES
    \* ---- render pipeline (one copy per run) ----
    cfg,        \* the inputs of render(): w, h, a, threads, seed, scene
    runs,       \* the runs of the pipeline that are executing (1, or 1 and 2)
    mainPc,     \* main thread: "build", "push", "spawn", "join", "returned", "panicked"
    mainIdx,    \* next worker to spawn / to join
    queue,      \* render_sender/render_receiver: the FIFO of (x, y) tasks
    want_quit,  \* the AtomicBool
    guiPc,      \* display thread: "absent", "unspawned", "running", "stored", "returned"
    wpc,        \* worker: "unspawned", "recv", "check", "send", "done", "panicked"
    task,       \* worker: (my_x, my_y)
    color,      \* worker: the colour of the sample being sent
    rng,        \* worker: state of its Pcg32
    published,  \* what pixel_sender.send delivered, in order
    taken,      \* history: the tasks each worker dequeued
    quitAt,     \* history: what was in flight when want_quit was stored
    \* ---- Bvh::new ----
    objects,    \* the slice handed to Bvh::new
    overflow_checks, \* whether the build panics on integer overflow
    nodes,      \* Vec<Node<T>>; node i is nodes[i + 1]
    bpc,        \* "alloc", "leaves", "sortleaves", "synth", "sortlayer", "done", "failed"
    layer,      \* the layer of the parent loop
    next_i,     \* the node the 'outer loop is at
    layer_real_end,
    failure,    \* why construction panicked
    \* ---- shoot_ray ----
    shot,       \* the arguments: ray_origin, ray, min_dist, max_dist; and tie:
                \* how f64 orders two hits at one and the same lambda
    todo_stack, \* node indices, the top is the last element
    max_dist,   \* the shrinking upper bound
    result,     \* <<>> for None, else the hit
    rpc,        \* "idle", "ready", "loop", "returned"
    \* ---- TexImage ----
    image,      \* the Image: w, h, content
    tex_pos,    \* the sample position in pixel units, in sub-pixel steps
    tex_shift,  \* how many widths and heights the second sample is moved by
    tex_out,    \* what evaluate did at tex_pos
    tex_shifted_out, \* what evaluate did at the moved position
    tpc,        \* "idle", "ready", "sampled", "shifted"
    \* ---- material graphs ----
    material,   \* the nodes of a material of the scene file
    graph,      \* what import made of it: Ok(output_index, nodes) or Err
    node_results, \* EvaluationContext: per node <<>> for None, else its outputs
    call_stack, \* the calls of evaluate_link and evaluate in progress
    evaluations, \* history: how often evaluate ran per node in this context
    contexts,   \* how many contexts were made
    bsdf,       \* what evaluate_material returned
    gpc,        \* "idle", "file", "rejected", "imported", "evaluating",
                \* "returned", "panicked", "overflow"
    \* ---- render_subpixel, handle_ray ----
    primary,    \* camera.position and the ray of calc_ray
    frames,     \* the calls of handle_ray in progress, the last is the top
    outcome,    \* what render_subpixel returned: "Pending", "None", "Some"
    shadow,     \* history: the last shadow sample and whether it was skipped
    spc,        \* "idle", "ready", "running", "returned"
    \* ---- seeding of the workers' generators ----
    program_seed, \* the u128 seed of the command line, as its big-endian bytes
    thread_count, \* how many workers are spawned
    worker_seeds, \* the bytes handed to Pcg32::from_seed, worker t at t + 1
    sdpc        \* "idle", "spawning"

pipeVars == <<cfg, runs, mainPc, mainIdx, queue, want_quit, guiPc, wpc, task,
              color, rng, published, taken, quitAt>>

bvhVars == <<objects, overflow_checks, nodes, bpc, layer, next_i, layer_real_end,
             failure>>

rayVars == <<shot, todo_stack, max_dist, result, rpc>>
texVars == <<image, tex_pos, tex_shift, tex_out, tex_shifted_out, tpc>>
graphVars == <<material, graph, node_results, call_stack, evaluations, contexts, bsdf, gpc>>
shadeVars == <<primary, frames, outcome, shadow, spc>>
seedVars == <<program_seed, thread_count, worker_seeds, sdpc>>
nonPipeVars == <<bvhVars, rayVars, texVars, graphVars, shadeVars, seedVars>>
nonBvhVars == <<pipeVars, rayVars, texVars, graphVars, shadeVars, seedVars>>
nonRayVars == <<pipeVars, bvhVars, texVars, graphVars, shadeVars, seedVars>>
nonTexVars == <<pipeVars, bvhVars, rayVars, graphVars, shadeVars, seedVars>>
nonGraphVars == <<pipeVars, bvhVars, rayVars, texVars, shadeVars, seedVars>>
nonShadeVars == <<pipeVars, bvhVars, rayVars, texVars, graphVars, seedVars>>
nonShadeRayVars == <<pipeVars, bvhVars, texVars, graphVars, seedVars>>
nonSeedVars == <<pipeVars, bvhVars, rayVars, texVars, graphVars, shadeVars>>
vars == <<pipeVars, bvhVars, rayVars, texVars, graphVars, shadeVars, seedVars>>

(***************************************************************************)
(* Integer helpers                                                         *)
(***************************************************************************)
RECURSIVE Pow(_, _)
Pow(b, e) == IF e = 0 THEN 1 ELSE b * Pow(b, e - 1)

Shl(v, a) == v * Pow(2, a)
Shr(v, a) == v \div Pow(2, a)

RECURSIVE TrailingZeros(_)
TrailingZeros(n) ==
    IF n = 0 THEN UsizeBits
    ELSE IF n % 2 = 1 THEN 0 ELSE 1 + TrailingZeros(n \div 2)

Min2(a, b) == IF a < b THEN a ELSE b
Max2(a, b) == IF a > b THEN a ELSE b
Abs(a) == IF a < 0 THEN -a ELSE a

(***************************************************************************)
(* Sample order: tracing/mod.rs 43-71                                      *)
(***************************************************************************)
\* the four nested loops pushing ((x << aa) + xaa, (y << aa) + yaa)
Positions(w, h, a) ==
    LET n == Pow(2, a)
    IN  [k \in 1..(w * h * n * n) |->
            LET i   == k - 1
                yaa == i % n
                xaa == (i \div n) % n
                y   == (i \div (n * n)) % h
                x   == i \div (n * n * h)
            IN  <<Shl(x, a) + xaa, Shl(y, a) + yaa>>]

PositionCmpYFirst(a, b) ==
    LET a_zeros == Min2(TrailingZeros(a[1]), TrailingZeros(a[2]))
        b_zeros == Min2(TrailingZeros(b[1]), TrailingZeros(b[2]))
    IN  IF a_zeros > b_zeros THEN "Less"
        ELSE IF a_zeros < b_zeros THEN "Greater"
        ELSE IF a[2] < b[2] THEN "Less"
        ELSE IF a[2] > b[2] THEN "Greater"
        ELSE IF a[1] < b[1] THEN "Less"
        ELSE IF a[1] > b[1] THEN "Greater"
        ELSE "Equal"

\* the comparator handed to sort_by
PositionCmp(a, b) ==
    LET a_zeros == Min2(TrailingZeros(a[1]), TrailingZeros(a[2]))
        b_zeros == Min2(TrailingZeros(b[1]), TrailingZeros(b[2]))
    IN  IF a_zeros > b_zeros THEN "Less"
        ELSE IF a_zeros < b_zeros THEN "Greater"
        ELSE IF a[1] < b[1] THEN "Less"
        ELSE IF a[1] > b[1] THEN "Greater"
        ELSE IF a[2] < b[2] THEN "Less"
        ELSE IF a[2] > b[2] THEN "Greater"
        ELSE "Equal"

\* slice::sort_by is a stable sort: e goes behind every element not greater
InsertStable(s, e) ==
    LET n == Cardinality({i \in 1..Len(s) : PositionCmp(s[i], e) # "Greater"})
    IN  SubSeq(s, 1, n) \o <<e>> \o SubSeq(s, n + 1, Len(s))

RECURSIVE SortFrom(_, _, _)
SortFrom(s, i, acc) ==
    IF i > Len(s) THEN acc ELSE SortFrom(s, i + 1, InsertStable(acc, s[i]))

SortPositionsSkipped(s) == s
SortPositions(s) == SortFrom(s, 1, <<>>)

SampleOrder(c) == SortPositions(Positions(c.w, c.h, c.a))

(***************************************************************************)
(* The worker's view of one task: tracing/mod.rs 99-147                    *)
(***************************************************************************)
\* (render_x, render_y) as <<numerator x, numerator y, denominator>>.
\* antialiasing = 0: the pixel centre.  Otherwise the subpixel centre
\* x/2^a + 1/2^(a+1) plus the RGSS offset (+-1/8) / 2^(a-1), both in units
\* of 1/2^(a+2).
RenderPos(my_x, my_y, a) ==
    IF a = 0 THEN <<2 * my_x + 1, 2 * my_y + 1, 2>>
    ELSE LET mask == Pow(2, a) - 1
             unit == Pow(2, a + 2)
             cx == Shr(my_x, a) * unit + (my_x % (mask + 1)) * 4 + 2
             cy == Shr(my_y, a) * unit + (my_y % (mask + 1)) * 4 + 2
             off == <<<<-1, 1>>, <<-1, -1>>, <<1, 1>>, <<1, -1>>>>
                        [(my_x % 2) + 2 * (my_y % 2) + 1]
         IN  <<cx + off[1], cy + off[2], unit>>

\* my_x >> antialiasing
DisplayCoordUnshifted(v, a) == v
DisplayCoord(v, a) == Shr(v, a)

\* seed.overflowing_mul(t as u128 + 123).0 ; the seeds of the model are far
\* below 2^128 / (MaxThreads + 123), so the product does not wrap
WorkerSeedEntropy(seed, t) ==
    seed * (t + 123) + Len(published[1]) + Len(queue[1])
WorkerSeed(seed, t) == seed * (t + 123)

\* Pcg32::from_seed: the generator is a linear congruential generator whose
\* start state is a function of the seed bytes; scaled down to 6 bits
RngFromSeed(ws) == ws % 64
RngStep(s) == (s * 5 + 3) % 64

\* rendering.rs 63-96 for a surface point lit by one area light that a
\* triangle half covers: each of sample_size rounds draws r and phi, shoots
\* a shadow ray, and adds one share of light when no triangle is hit.
RECURSIVE LightSamples(_, _, _)
LightSamples(i, s, acc) ==
    IF i = SampleSize THEN [color |-> acc, rng |-> s]
    ELSE LET r_state   == RngStep(s)
             phi_state == RngStep(r_state)
             occluded  == phi_state < 32
         IN  LightSamples(i + 1, phi_state, IF occluded THEN acc ELSE acc + 1)

\* render_subpixel: the colour (in shares of 1/sample_size of the light) and
\* the state the worker's generator is left in.
\*   "empty"    no triangle and no light: Bvh::new fails, nothing is rendered
\*   "void"     geometry out of view: every ray misses, None, black
\*   "penumbra" every primary ray hits a diffuse triangle under an area light
RenderSubpixel(scene, s, pos) ==
    IF scene = "void" THEN [color |-> 0, rng |-> s]
    ELSE LightSamples(0, s, 0)

\* which generator worker t draws from: `let mut rng` inside its own closure
RngSlotShared(t) == 0
RngSlot(t) == t

\* want_quit.load(Relaxed)
LoadQuitNever(r) == FALSE
LoadQuit(r) == want_quit[r]

(***************************************************************************)
(* Pipeline: initial states                                                *)
(***************************************************************************)
Scenes == {"empty", "void", "penumbra"}

\* (objects.len() as f64).log(4.0).ceil() as u32: the least L with 4^L >= n,
\* and 0 for n = 0 (log is -inf, and the cast saturates)
RECURSIVE CeilLog4(_, _)
CeilLog4(n, l) == IF Pow(4, l) >= n THEN l ELSE CeilLog4(n, l + 1)
LayerCount(n) == IF n = 0 THEN 0 ELSE CeilLog4(n, 0)

\* geometry.len(): scene.triangles and scene.point_lights together
GeometryLen(scene) ==
    IF scene = "empty" THEN 0
    ELSE IF scene = "void" THEN 2
    ELSE 3
NoTask == <<>>
Threads == 0..(MaxThreads - 1)

Configs(maxSamples) ==
    {c \in [w : 1..MaxW, h : 1..MaxH, a : 0..MaxA, threads : 0..MaxThreads,
            seed : 0..MaxSeed, scene : Scenes] :
        c.w * c.h * Pow(4, c.a) <= maxSamples}

PipeInit(c, rs, gui) ==
    /\ cfg = c
    /\ runs = rs
    /\ mainPc = [r \in rs |-> "build"]
    /\ mainIdx = [r \in rs |-> 0]
    /\ queue = [r \in rs |-> <<>>]
    /\ want_quit = [r \in rs |-> FALSE]
    /\ guiPc = [r \in rs |-> gui]
    /\ wpc = [r \in rs |-> [t \in Threads |-> "unspawned"]]
    /\ task = [r \in rs |-> [t \in Threads |-> NoTask]]
    /\ color = [r \in rs |-> [t \in Threads |-> 0]]
    /\ rng = [r \in rs |-> [t \in Threads |-> 0]]
    /\ published = [r \in rs |-> <<>>]
    /\ taken = [r \in rs |-> [t \in Threads |-> <<>>]]
    /\ quitAt = [r \in rs |-> NoTask]

(***************************************************************************)
(* Pipeline: the main thread                                               *)
(***************************************************************************)
\* main.rs 115-126, tracing/mod.rs 28-38: Bvh::new(&geometry); with
\* layer_count = 0 it panics, or indexes out of bounds, before any channel,
\* position or thread exists
BuildBvh(r) ==
    /\ mainPc[r] = "build"
    /\ mainPc' = [mainPc EXCEPT ![r] =
          IF LayerCount(GeometryLen(cfg.scene)) = 0 THEN "panicked" ELSE "push"]
    /\ UNCHANGED <<cfg, runs, mainIdx, queue, want_quit, guiPc, wpc, task, color,
                   rng, published, taken, quitAt>>
    /\ UNCHANGED nonPipeVars

\* main.rs 138-182: build, sort and send the positions, start the display
PushPositions(r) ==
    /\ mainPc[r] = "push"
    /\ queue' = [queue EXCEPT ![r] = SampleOrder(cfg)]
    /\ guiPc' = [guiPc EXCEPT ![r] = IF @ = "unspawned" THEN "running" ELSE @]
    /\ mainPc' = [mainPc EXCEPT ![r] = IF cfg.threads = 0 THEN "join" ELSE "spawn"]
    /\ UNCHANGED <<cfg, runs, mainIdx, want_quit, wpc, task, color, rng,
                   published, taken, quitAt>>
    /\ UNCHANGED nonPipeVars

\* main.rs 186-254 / tracing/mod.rs 80-152: one round of the spawn loop; the
\* new thread seeds its generator
Spawn(r) ==
    /\ mainPc[r] = "spawn"
    /\ LET t == mainIdx[r] IN
        /\ wpc' = [wpc EXCEPT ![r][t] = "recv"]
        /\ rng' = [rng EXCEPT ![r][t] = RngFromSeed(WorkerSeed(cfg.seed, t))]
        /\ mainIdx' = [mainIdx EXCEPT ![r] = IF t + 1 = cfg.threads THEN 0 ELSE t + 1]
        /\ mainPc' = [mainPc EXCEPT ![r] = IF t + 1 = cfg.threads THEN "join" ELSE "spawn"]
    /\ UNCHANGED <<cfg, runs, queue, want_quit, guiPc, task, color, published,
                   taken, quitAt>>
    /\ UNCHANGED nonPipeVars

\* worker_thread.join().unwrap(): blocks until the worker has ended, and
\* re-raises its panic
Join(r) ==
    /\ mainPc[r] = "join"
    /\ mainIdx[r] < cfg.threads
    /\ wpc[r][mainIdx[r]] \in {"done", "panicked"}
    /\ IF wpc[r][mainIdx[r]] = "panicked"
       THEN mainPc' = [mainPc EXCEPT ![r] = "panicked"] /\ UNCHANGED mainIdx
       ELSE mainIdx' = [mainIdx EXCEPT ![r] = @ + 1] /\ UNCHANGED mainPc
    /\ UNCHANGED <<cfg, runs, queue, want_quit, guiPc, wpc, task, color, rng,
                   published, taken, quitAt>>
    /\ UNCHANGED nonPipeVars

ReturnWithoutJoin(r) ==
    /\ mainPc[r] = "join"
    /\ mainPc' = [mainPc EXCEPT ![r] = "returned"]
    /\ UNCHANGED <<cfg, runs, mainIdx, queue, want_quit, guiPc, wpc, task, color,
                   rng, published, taken, quitAt>>
    /\ UNCHANGED nonPipeVars

\* the join loop is over: the pipeline returns
Return(r) ==
    /\ mainPc[r] = "join"
    /\ mainIdx[r] = cfg.threads
    /\ mainPc' = [mainPc EXCEPT ![r] = "returned"]
    /\ UNCHANGED <<cfg, runs, mainIdx, queue, want_quit, guiPc, wpc, task, color,
                   rng, published, taken, quitAt>>
    /\ UNCHANGED nonPipeVars

(***************************************************************************)
(* Pipeline: a worker                                                      *)
(***************************************************************************)
\* while let Ok((my_x, my_y)) = render_receiver.try_recv()
Recv(r, t) ==
    /\ wpc[r][t] = "recv"
    /\ IF queue[r] = <<>>
       THEN /\ wpc' = [wpc EXCEPT ![r][t] = "done"]
            /\ UNCHANGED <<queue, task, taken>>
       ELSE /\ task' = [task EXCEPT ![r][t] = Head(queue[r])]
            /\ queue' = [queue EXCEPT ![r] = Tail(@)]
            /\ taken' = [taken EXCEPT ![r][t] = Append(@, Head(queue[r]))]
            /\ wpc' = [wpc EXCEPT ![r][t] = "check"]
    /\ UNCHANGED <<cfg, runs, mainPc, mainIdx, want_quit, guiPc, color, rng,
                   published, quitAt>>
    /\ UNCHANGED nonPipeVars

\* if want_quit.load(..) { break; } and, when it is not set, the rendering
\* of the sample (a computation local to the worker)
Check(r, t) ==
    /\ wpc[r][t] = "check"
    /\ IF LoadQuit(r)
       THEN /\ wpc' = [wpc EXCEPT ![r][t] = "done"]
            /\ UNCHANGED <<color, rng>>
       ELSE LET pos == RenderPos(task[r][t][1], task[r][t][2], cfg.a)
                out == RenderSubpixel(cfg.scene, rng[r][RngSlot(t)], pos)
            IN  /\ color' = [color EXCEPT ![r][t] = out.color]
                /\ rng' = [rng EXCEPT ![r][RngSlot(t)] = out.rng]
                /\ wpc' = [wpc EXCEPT ![r][t] = "send"]
    /\ UNCHANGED <<cfg, runs, mainPc, mainIdx, queue, want_quit, guiPc, task,
                   published, taken, quitAt>>
    /\ UNCHANGED nonPipeVars

\* pixel_sender.send((my_x >> antialiasing, my_y >> antialiasing, color)).unwrap()
\* send fails, and unwrap panics, once the only receiver has been dropped
Send(r, t) ==
    /\ wpc[r][t] = "send"
    /\ IF guiPc[r] = "returned"
       THEN /\ wpc' = [wpc EXCEPT ![r][t] = "panicked"]
            /\ UNCHANGED published
       ELSE /\ published' = [published EXCEPT ![r] = Append(@,
                  [x |-> DisplayCoord(task[r][t][1], cfg.a),
                   y |-> DisplayCoord(task[r][t][2], cfg.a),
                   color |-> color[r][t],
                   src |-> task[r][t],
                   by |-> t])]
            /\ wpc' = [wpc EXCEPT ![r][t] = "recv"]
    /\ UNCHANGED <<cfg, runs, mainPc, mainIdx, queue, want_quit, guiPc, task,
                   color, rng, taken, quitAt>>
    /\ UNCHANGED nonPipeVars

(***************************************************************************)
(* Pipeline: the display thread, gui.rs 197-263                            *)
(***************************************************************************)
\* break 'running; want_quit.store(true, Relaxed)
GuiQuit(r) ==
    /\ guiPc[r] = "running"
    /\ want_quit' = [want_quit EXCEPT ![r] = TRUE]
    /\ guiPc' = [guiPc EXCEPT ![r] = "stored"]
    /\ quitAt' = [quitAt EXCEPT ![r] =
          [pubLen |-> Len(published[r]),
           inflight |-> [t \in Threads |->
                IF wpc[r][t] = "send" THEN task[r][t] ELSE NoTask]]]
    /\ UNCHANGED <<cfg, runs, mainPc, mainIdx, queue, wpc, task, color, rng,
                   published, taken>>
    /\ UNCHANGED nonPipeVars

\* main_loop returns: the closure ends and drops the pixel receiver
GuiReturn(r) ==
    /\ guiPc[r] = "stored"
    /\ guiPc' = [guiPc EXCEPT ![r] = "returned"]
    /\ UNCHANGED <<cfg, runs, mainPc, mainIdx, queue, want_quit, wpc, task, color,
                   rng, published, taken, quitAt>>
    /\ UNCHANGED nonPipeVars

(***************************************************************************)
(* Geometry: scene.rs                                                      *)
(***************************************************************************)
\* f64::INFINITY; every coordinate of the model is far below it
F64Infinity == 1000000

Vec3Min(a, b) == <<Min2(a[1], b[1]), Min2(a[2], b[2]), Min2(a[3], b[3])>>
Vec3Max(a, b) == <<Max2(a[1], b[1]), Max2(a[2], b[2]), Max2(a[3], b[3])>>
Vec3Add(a, b) == <<a[1] + b[1], a[2] + b[2], a[3] + b[3]>>
Vec3Sub(a, b) == <<a[1] - b[1], a[2] - b[2], a[3] - b[3]>>
Vec3Scale(k, a) == <<k * a[1], k * a[2], k * a[3]>>
Dot(a, b) == a[1] * b[1] + a[2] * b[2] + a[3] * b[3]
Cross(a, b) == <<a[2] * b[3] - a[3] * b[2],
                 a[3] * b[1] - a[1] * b[3],
                 a[1] * b[2] - a[2] * b[1]>>

Triangle(a, b, c) == [kind |-> "Triangle", a |-> a, b |-> b, c |-> c, radius |-> 0]
PointLight(pos, radius) ==
    [kind |-> "PointLight", a |-> pos, b |-> pos, c |-> pos, radius |-> radius]

\* HasAABB for Geometry: Triangle and PointLight
CalculateAabb(g) ==
    IF g.kind = "Triangle"
    THEN [min |-> Vec3Min(Vec3Min(g.a, g.b), g.c),
          max |-> Vec3Max(Vec3Max(g.a, g.b), g.c)]
    ELSE [min |-> Vec3Sub(g.a, <<g.radius, g.radius, g.radius>>),
          max |-> Vec3Add(g.a, <<g.radius, g.radius, g.radius>>)]

(***************************************************************************)
(* The node array: bvh.rs                                                  *)
(***************************************************************************)
ValueEmpty == [tag |-> "Empty", obj |-> 0]
ValueNode == [tag |-> "Node", obj |-> 0]
ValueLeaf(k) == [tag |-> "Leaf", obj |-> k]

IsEmpty(v) == v.tag = "Empty"

\* the element of the vec! in Bvh::new
SentinelNode ==
    [aabb_min_x |-> <<F64Infinity, F64Infinity, F64Infinity, F64Infinity>>,
     aabb_min_y |-> <<F64Infinity, F64Infinity, F64Infinity, F64Infinity>>,
     aabb_min_z |-> <<F64Infinity, F64Infinity, F64Infinity, F64Infinity>>,
     aabb_max_x |-> <<-F64Infinity, -F64Infinity, -F64Infinity, -F64Infinity>>,
     aabb_max_y |-> <<-F64Infinity, -F64Infinity, -F64Infinity, -F64Infinity>>,
     aabb_max_z |-> <<-F64Infinity, -F64Infinity, -F64Infinity, -F64Infinity>>,
     value |-> <<ValueEmpty, ValueEmpty, ValueEmpty, ValueEmpty>>]

NodeAt(ns, i) == ns[i + 1]

\* Node::get_aabb
GetAabb(node, k) ==
    [min |-> <<node.aabb_min_x[k + 1], node.aabb_min_y[k + 1], node.aabb_min_z[k + 1]>>,
     max |-> <<node.aabb_max_x[k + 1], node.aabb_max_y[k + 1], node.aabb_max_z[k + 1]>>]

AllEmpty(node) == \A k \in 1..4 : IsEmpty(node.value[k])

\* (4usize.pow(l) - 1) / 3, the index of the first node of layer l
LayerStart(l) == (Pow(4, l) - 1) \div 3

LeafesEnd(n) == LayerStart(LayerCount(n) - 1) + (n \div 4) + (IF n % 4 = 0 THEN 0 ELSE 1)

\* nodes.swap(from, to)
SwapNodes(ns, from, to) ==
    [ns EXCEPT ![from + 1] = ns[to + 1], ![to + 1] = ns[from + 1]]

\* swap_tree_rec
RECURSIVE SwapTreeRec(_, _, _)
SwapTreeRecNothing(ns, from, to) == ns
\* the two nodes are exchanged, their subtrees stay
SwapTreeRecShallow(ns, from, to) ==
    IF from < Len(ns) /\ to < Len(ns) THEN SwapNodes(ns, from, to) ELSE ns
\* swap_tree_rec with the children visited in the order 1, 2, 3, 4
RECURSIVE SwapTreeRecAscending(_, _, _)
SwapTreeRecAscending(ns, from, to) ==
    IF from < Len(ns) /\ to < Len(ns)
    THEN LET n0 == SwapNodes(ns, from, to)
             n1 == SwapTreeRecAscending(n0, from * 4 + 1, to * 4 + 1)
             n2 == SwapTreeRecAscending(n1, from * 4 + 2, to * 4 + 2)
             n3 == SwapTreeRecAscending(n2, from * 4 + 3, to * 4 + 3)
         IN  SwapTreeRecAscending(n3, from * 4 + 4, to * 4 + 4)
    ELSE ns
SwapTreeRec(ns, from, to) ==
    IF from < Len(ns) /\ to < Len(ns)
    THEN LET n0 == SwapNodes(ns, from, to)
             n4 == SwapTreeRec(n0, from * 4 + 4, to * 4 + 4)
             n3 == SwapTreeRec(n4, from * 4 + 3, to * 4 + 3)
             n2 == SwapTreeRec(n3, from * 4 + 2, to * 4 + 2)
         IN  SwapTreeRec(n2, from * 4 + 1, to * 4 + 1)
    ELSE ns

\* calc_metric
CalcMetric(a, b) ==
    LET mn == Vec3Min(a.min, b.min)
        mx == Vec3Max(a.max, b.max)
        v  == Vec3Sub(mx, mn)
    IN  v[1] * v[2] + v[1] * v[3] + v[2] * v[3]

\* slot k of a node, all six lanes and the value
SlotOf(node, k) ==
    [min_x |-> node.aabb_min_x[k + 1], min_y |-> node.aabb_min_y[k + 1],
     min_z |-> node.aabb_min_z[k + 1], max_x |-> node.aabb_max_x[k + 1],
     max_y |-> node.aabb_max_y[k + 1], max_z |-> node.aabb_max_z[k + 1],
     value |-> node.value[k + 1]]

WithSlot(node, k, s) ==
    [aabb_min_x |-> [node.aabb_min_x EXCEPT ![k + 1] = s.min_x],
     aabb_min_y |-> [node.aabb_min_y EXCEPT ![k + 1] = s.min_y],
     aabb_min_z |-> [node.aabb_min_z EXCEPT ![k + 1] = s.min_z],
     aabb_max_x |-> [node.aabb_max_x EXCEPT ![k + 1] = s.max_x],
     aabb_max_y |-> [node.aabb_max_y EXCEPT ![k + 1] = s.max_y],
     aabb_max_z |-> [node.aabb_max_z EXCEPT ![k + 1] = s.max_z],
     value |-> [node.value EXCEPT ![k + 1] = s.value]]

\* sort_by_metric 262-300: exchange slot `neighbour` of node `slot` with
\* slot min_j of node min_i (the six lanes and the value)
SwapSlotsCloneValue(ns, slot, neighbour, min_i, min_j) ==
    LET a == SlotOf(NodeAt(ns, slot), neighbour)
        b == SlotOf(NodeAt(ns, min_i), min_j)
        n1 == [ns EXCEPT ![slot + 1] = WithSlot(@, neighbour, b)]
    IN  [n1 EXCEPT ![min_i + 1] = WithSlot(@, min_j, [a EXCEPT !.value = b.value])]
\* the six lanes are exchanged, the two values stay
SwapSlotsLanesOnly(ns, slot, neighbour, min_i, min_j) ==
    LET a == SlotOf(NodeAt(ns, slot), neighbour)
        b == SlotOf(NodeAt(ns, min_i), min_j)
        n1 == [ns EXCEPT ![slot + 1] = WithSlot(@, neighbour, [b EXCEPT !.value = a.value])]
    IN  [n1 EXCEPT ![min_i + 1] = WithSlot(@, min_j, [a EXCEPT !.value = b.value])]
SwapSlots(ns, slot, neighbour, min_i, min_j) ==
    LET a == SlotOf(NodeAt(ns, slot), neighbour)
        b == SlotOf(NodeAt(ns, min_i), min_j)
        n1 == [ns EXCEPT ![slot + 1] = WithSlot(@, neighbour, b)]
    IN  [n1 EXCEPT ![min_i + 1] = WithSlot(@, min_j, a)]

\* the slots the two inner loops of sort_by_metric look at
Scanned(slot, to, neighbour) ==
    {c \in (slot..(to - 1)) \X (0..3) : ~(c[1] = slot /\ c[2] < neighbour)}

Candidates(ns, slot, to, neighbour) ==
    {c \in Scanned(slot, to, neighbour) : ~IsEmpty(NodeAt(ns, c[1]).value[c[2] + 1])}

\* assert!(i == to - 1) at every empty slot that is met
SortAssertion(ns, slot, to, neighbour) ==
    \A c \in Scanned(slot, to, neighbour) :
        IsEmpty(NodeAt(ns, c[1]).value[c[2] + 1]) => c[1] = to - 1

\* the (min_i, min_j) the scan ends with: the least metric, the first met
BestCandidate(ns, slot, to, neighbour, current_aabb) ==
    LET cands == Candidates(ns, slot, to, neighbour)
        m(c) == CalcMetric(current_aabb, GetAabb(NodeAt(ns, c[1]), c[2]))
    IN  CHOOSE c \in cands :
            \A d \in cands :
                \/ m(c) < m(d)
                \/ m(c) = m(d) /\ c[1] * 4 + c[2] <= d[1] * 4 + d[2]

\* the body of `for neighbour in 1..4`, for neighbour and those after it
RECURSIVE SortNeighbours(_, _, _, _, _, _)
SortNeighbours(ns, slot, to, neighbour, current_aabb, ok) ==
    IF neighbour = 4 \/ ~ok THEN [nodes |-> ns, ok |-> ok]
    ELSE IF ~SortAssertion(ns, slot, to, neighbour) THEN [nodes |-> ns, ok |-> FALSE]
    ELSE IF Candidates(ns, slot, to, neighbour) = {}
    THEN SortNeighbours(ns, slot, to, neighbour + 1, current_aabb, ok)
    ELSE LET best == BestCandidate(ns, slot, to, neighbour, current_aabb)
             min_i == best[1]
             min_j == best[2]
             cand == GetAabb(NodeAt(ns, min_i), min_j)
             grown == [min |-> Vec3Min(current_aabb.min, cand.min),
                       max |-> Vec3Max(current_aabb.max, cand.max)]
             n1 == SwapTreeRec(ns, slot * 4 + neighbour + 1, min_i * 4 + min_j + 1)
             n2 == SwapSlots(n1, slot, neighbour, min_i, min_j)
         IN  SortNeighbours(n2, slot, to, neighbour + 1, grown, ok)

\* sort_by_metric(nodes, from, to): the nodes afterwards, and whether every
\* assertion held
RECURSIVE SortByMetric(_, _, _)
SortByMetric(ns, from, to) ==
    IF from >= to THEN [nodes |-> ns, ok |-> TRUE]
    ELSE LET r == SortNeighbours(ns, from, to, 1, GetAabb(NodeAt(ns, from), 0), TRUE)
         IN  IF r.ok THEN SortByMetric(r.nodes, from + 1, to) ELSE r

\* Bvh::new 129-140: the leaves, four per node from leafes_start_index on
RECURSIVE PlaceLeaves(_, _, _, _)
PlaceLeaves(ns, objs, leafes_start_index, i) ==
    IF i = Len(objs) THEN ns
    ELSE LET node_i == (i \div 4) + leafes_start_index
             leaf_i == i % 4
             box == CalculateAabb(objs[i + 1])
             s == [min_x |-> box.min[1], min_y |-> box.min[2], min_z |-> box.min[3],
                   max_x |-> box.max[1], max_y |-> box.max[2], max_z |-> box.max[3],
                   value |-> ValueLeaf(i + 1)]
         IN  PlaceLeaves([ns EXCEPT ![node_i + 1] = WithSlot(@, leaf_i, s)],
                         objs, leafes_start_index, i + 1)

\* a parent that tags its slot before it looks at the child's slot
RECURSIVE CombineTagFirst(_, _, _)
CombineTagFirst(ns, i, q) ==
    IF q = 16 THEN [nodes |-> ns, broke |-> FALSE]
    ELSE LET child_i == q \div 4
             theirs == SlotOf(NodeAt(ns, 4 * i + child_i + 1), q % 4)
             tagged == [ns EXCEPT ![i + 1] = [@ EXCEPT !.value[child_i + 1] = ValueNode]]
         IN  IF ~IsEmpty(theirs.value)
             THEN CombineTagFirst(tagged, i, q + 1)
             ELSE [nodes |-> tagged, broke |-> TRUE]

\* Bvh::new 176-197: parent i takes the union of child child_i's slots into
\* its slot child_i; q counts the rounds of the two loops; the first empty
\* slot met breaks out of 'outer
RECURSIVE Combine(_, _, _)
Combine(ns, i, q) ==
    IF q = 16 THEN [nodes |-> ns, broke |-> FALSE]
    ELSE LET child_i == q \div 4
             j == q % 4
             child == NodeAt(ns, 4 * i + child_i + 1)
             mine == SlotOf(NodeAt(ns, i), child_i)
             theirs == SlotOf(child, j)
             merged == [min_x |-> Min2(mine.min_x, theirs.min_x),
                        min_y |-> Min2(mine.min_y, theirs.min_y),
                        min_z |-> Min2(mine.min_z, theirs.min_z),
                        max_x |-> Max2(mine.max_x, theirs.max_x),
                        max_y |-> Max2(mine.max_y, theirs.max_y),
                        max_z |-> Max2(mine.max_z, theirs.max_z),
                        value |-> ValueNode]
         IN  IF ~IsEmpty(theirs.value)
             THEN Combine([ns EXCEPT ![i + 1] = WithSlot(@, child_i, merged)], i, q + 1)
             ELSE [nodes |-> ns, broke |-> TRUE]

(***************************************************************************)
(* Bvh::new as a state machine                                             *)
(***************************************************************************)
\* The inputs: n objects, triangles and point lights on a small integer grid
GenObject(p, k) ==
    LET base == <<((k * (2 * p + 1)) % 7), ((k * k + p) % 5), ((3 * k + p) % 4)>>
        e == <<<<1, 0, 0>>, <<0, 1, 0>>, <<0, 0, 1>>>>
        o == (k + p) % 3
    IN  IF k % 4 = 0
        THEN PointLight(base, ((k \div 4) + p) % 2)
        ELSE Triangle(base, Vec3Add(base, Vec3Scale(TriangleLeg, e[o + 1])),
                      Vec3Add(base, Vec3Scale(TriangleLeg, e[((o + 1) % 3) + 1])))

GenObjects(p, n) == [k \in 1..n |-> GenObject(p, k)]

BvhIdle ==
    /\ objects = <<>>
    /\ overflow_checks = TRUE
    /\ nodes = <<>>
    /\ bpc = "idle"
    /\ layer = 0
    /\ next_i = 0
    /\ layer_real_end = 0
    /\ failure = ""

BvhStart(objs, checks) ==
    /\ objects = objs
    /\ overflow_checks = checks
    /\ nodes = <<>>
    /\ bpc = "alloc"
    /\ layer = 0
    /\ next_i = 0
    /\ layer_real_end = 0
    /\ failure = ""

\* Bvh::new 109-128: layer_count, node_count, the vec! of sentinel nodes and
\* leafes_start_index.  With layer_count = 0 (no object, or one) the
\* subtraction layer_count - 1 overflows: a panic when overflow is checked;
\* otherwise it wraps to u32::MAX, 4usize.pow wraps to 0 and
\* leafes_start_index becomes (2^64 - 1) / 3.
Allocate ==
    /\ bpc = "alloc"
    /\ LET layer_count == LayerCount(Len(objects))
           node_count == LayerStart(layer_count)
       IN  IF layer_count = 0 /\ overflow_checks
           THEN /\ bpc' = "failed"
                /\ failure' = "attempt to subtract with overflow"
                /\ UNCHANGED nodes
           ELSE /\ nodes' = [i \in 1..node_count |-> SentinelNode]
                /\ bpc' = "leaves"
                /\ UNCHANGED failure
    /\ UNCHANGED <<objects, overflow_checks, layer, next_i, layer_real_end>>
    /\ UNCHANGED nonBvhVars

\* Bvh::new 129-140.  With the wrapped leafes_start_index the first
\* nodes[node_i] is out of range.
Leaves ==
    /\ bpc = "leaves"
    /\ LET layer_count == LayerCount(Len(objects)) IN
        IF layer_count = 0
        THEN IF Len(objects) > 0
             THEN /\ bpc' = "failed"
                  /\ failure' = "index out of bounds"
                  /\ UNCHANGED nodes
             ELSE /\ bpc' = "sortleaves"
                  /\ UNCHANGED <<nodes, failure>>
        ELSE /\ nodes' = PlaceLeaves(nodes, objects, LayerStart(layer_count - 1), 0)
             /\ bpc' = "sortleaves"
             /\ UNCHANGED failure
    /\ UNCHANGED <<objects, overflow_checks, layer, next_i, layer_real_end>>
    /\ UNCHANGED nonBvhVars

\* Bvh::new 141-147: sort the leaf layer, enter the loop over the parent
\* layers.  With the wrapped layer_count - 1 the loop runs from layer
\* u32::MAX - 1 down; its ranges are empty until layer 31.
SortLeaves ==
    /\ bpc = "sortleaves"
    /\ LET n == Len(objects)
           layer_count == LayerCount(n)
       IN  IF layer_count = 0
           THEN /\ layer' = 31
                /\ bpc' = "synth"
                /\ UNCHANGED <<nodes, next_i, layer_real_end, failure>>
           ELSE LET r == SortByMetric(nodes, LayerStart(layer_count - 1), LeafesEnd(n))
                IN  IF ~r.ok
                    THEN /\ bpc' = "failed"
                         /\ failure' = "assertion failed: i == to - 1"
                         /\ UNCHANGED <<nodes, layer, next_i, layer_real_end>>
                    ELSE /\ nodes' = r.nodes
                         /\ UNCHANGED failure
                         /\ IF layer_count = 1
                            THEN bpc' = "done" /\ UNCHANGED <<layer, next_i, layer_real_end>>
                            ELSE /\ bpc' = "synth"
                                 /\ layer' = layer_count - 2
                                 /\ next_i' = LayerStart(layer_count - 2)
                                 /\ layer_real_end' = LayerStart(layer_count - 1)
    /\ UNCHANGED <<objects, overflow_checks>>
    /\ UNCHANGED nonBvhVars

InLayerLoop ==
    /\ bpc = "synth"
    /\ LayerCount(Len(objects)) > 0
    /\ next_i < LayerStart(layer + 1)

Child(i, k) == NodeAt(nodes, 4 * i + k + 1)

\* the layer is sorted to its end wherever 'outer was left
AfterNodeWholeLayer(i, broke, real_end) ==
    IF broke
    THEN /\ bpc' = "sortlayer"
         /\ layer_real_end' = LayerStart(layer + 1)
         /\ UNCHANGED next_i
    ELSE /\ next_i' = i + 1
         /\ UNCHANGED layer_real_end
         /\ bpc' = IF i + 1 = LayerStart(layer + 1) THEN "sortlayer" ELSE "synth"

\* the round of 'outer is over: on to the next node, or to the sort
AfterNode(i, broke, real_end) ==
    IF broke
    THEN /\ bpc' = "sortlayer"
         /\ layer_real_end' = real_end
         /\ UNCHANGED next_i
    ELSE /\ next_i' = i + 1
         /\ UNCHANGED layer_real_end
         /\ bpc' = IF i + 1 = LayerStart(layer + 1) THEN "sortlayer" ELSE "synth"

\* Bvh::new 156-164: the four children are empty
SynthEmpty ==
    /\ InLayerLoop
    /\ \A k \in 0..3 : AllEmpty(Child(next_i, k))
    /\ AfterNode(next_i, TRUE, next_i)
    /\ UNCHANGED <<objects, overflow_checks, nodes, layer, failure>>
    /\ UNCHANGED nonBvhVars

\* Bvh::new 165-174: only child 0 holds something: it is promoted
SynthPromote ==
    /\ InLayerLoop
    /\ ~AllEmpty(Child(next_i, 0))
    /\ \A k \in 1..3 : AllEmpty(Child(next_i, k))
    /\ nodes' = SwapTreeRec(nodes, 4 * next_i + 1, next_i)
    /\ AfterNode(next_i, TRUE, next_i + 1)
    /\ UNCHANGED <<objects, overflow_checks, layer, failure>>
    /\ UNCHANGED nonBvhVars

\* Bvh::new 175-198: the slots of the parent are built from its children
SynthCombine ==
    /\ InLayerLoop
    /\ \E k \in 1..3 : ~AllEmpty(Child(next_i, k))
    /\ LET r == Combine(nodes, next_i, 0) IN
        /\ nodes' = r.nodes
        /\ AfterNode(next_i, r.broke, next_i + 1)
    /\ UNCHANGED <<objects, overflow_checks, layer, failure>>
    /\ UNCHANGED nonBvhVars

\* Bvh::new 148-151 after the wrap: layer 31 starts at (4^31 - 1) / 3 and
\* the node array is empty: nodes[children[0]] is out of range
SynthOutOfRange ==
    /\ bpc = "synth"
    /\ LayerCount(Len(objects)) = 0
    /\ bpc' = "failed"
    /\ failure' = "index out of bounds"
    /\ UNCHANGED <<objects, overflow_checks, nodes, layer, next_i, layer_real_end>>
    /\ UNCHANGED nonBvhVars

\* Bvh::new 201-204: sort the layer just built; then the next layer up, or
\* Bvh { nodes }
SortLayer ==
    /\ bpc = "sortlayer"
    /\ LET r == SortByMetric(nodes, LayerStart(layer), layer_real_end) IN
        IF ~r.ok
        THEN /\ bpc' = "failed"
             /\ failure' = "assertion failed: i == to - 1"
             /\ UNCHANGED <<nodes, layer, next_i, layer_real_end>>
        ELSE /\ nodes' = r.nodes
             /\ UNCHANGED failure
             /\ IF layer = 0
                THEN bpc' = "done" /\ UNCHANGED <<layer, next_i, layer_real_end>>
                ELSE /\ bpc' = "synth"
                     /\ layer' = layer - 1
                     /\ next_i' = LayerStart(layer - 1)
                     /\ layer_real_end' = LayerStart(layer)
    /\ UNCHANGED <<objects, overflow_checks>>
    /\ UNCHANGED nonBvhVars

(***************************************************************************)
(* shoot_ray: tracing/raytracer.rs                                         *)
(*                                                                         *)
(* An f64 is a pair <<n, d>> with d >= 0, the quotient n / d: <<1, 0>> is  *)
(* INFINITY, <<-1, 0>> NEG_INFINITY and <<0, 0>> NaN.  The inputs are      *)
(* small integers and the square roots taken are of perfect squares, so    *)
(* the quotients are the values the code computes up to rounding far below *)
(* EPS.                                                                    *)
(***************************************************************************)
Sign(n) == IF n > 0 THEN 1 ELSE IF n < 0 THEN -1 ELSE 0

Quot(n, d) ==
    IF d = 0 THEN <<Sign(n), 0>>
    ELSE IF d < 0 THEN <<-n, -d>>
    ELSE <<n, d>>

Infinity == <<1, 0>>
NegInfinity == <<-1, 0>>
NaN == <<0, 0>>

IsNaN(q) == q = NaN
\* f64::is_finite
IsFinite(q) == q[2] # 0

\* a < b on f64: false when either is NaN
Lt(a, b) ==
    IF IsNaN(a) \/ IsNaN(b) THEN FALSE
    ELSE IF a[2] = 0 /\ b[2] = 0 THEN a[1] < b[1]
    ELSE a[1] * b[2] < b[1] * a[2]
Gt(a, b) == Lt(b, a)
Le(a, b) == ~IsNaN(a) /\ ~IsNaN(b) /\ ~Lt(b, a)

\* _mm256_max_pd and _mm256_min_pd, one lane, no NaN among the operands
MaxPd(a, b) == IF Lt(a, b) THEN b ELSE a
MinPd(a, b) == IF Lt(b, a) THEN b ELSE a

\* pub const EPS: f64 = 2e-7, as 1 / EpsInverse
EpsInverse == 5000000
Eps == <<1, EpsInverse>>

\* (num / den).almost_eq(1.0) for den > 0: |num / den - 1| < EPS
AlmostEqOne(num, den) == Abs(num - den) <= (den - 1) \div EpsInverse

\* Triangle::new: the plane of the triangle
PlaneOf(t) ==
    LET n == Cross(Vec3Sub(t.b, t.a), Vec3Sub(t.c, t.a))
    IN  [n |-> n, d |-> Dot(t.a, n)]

\* raytracer.rs 311-318: lambda of the ray on the plane of the triangle
TriangleLambda(t, ray_origin, ray) ==
    LET pl == PlaneOf(t)
    IN  Quot(pl.d - Dot(pl.n, ray_origin), Dot(pl.n, ray))

\* raytracer.rs 322-341: alpha + beta + gamma is almost 1.  The
\* intersection is p / lambda[2]; it lies in the plane, so each of the
\* three cross products is parallel to the normal n and its length is
\* |cross . n| / |n|; the sum of the three lengths over |n| is
\* (sum of |cross . n|) / (lambda[2]^2 * n.n).
BarycentricSumIsOne(t, ray_origin, ray, lambda) ==
    LET pl == PlaneOf(t)
        den == lambda[2]
        p == Vec3Add(Vec3Scale(den, ray_origin), Vec3Scale(lambda[1], ray))
        ai == Vec3Sub(Vec3Scale(den, t.a), p)
        bi == Vec3Sub(Vec3Scale(den, t.b), p)
        ci == Vec3Sub(Vec3Scale(den, t.c), p)
        abi == Abs(Dot(Cross(ai, bi), pl.n))
        aci == Abs(Dot(Cross(ai, ci), pl.n))
        bci == Abs(Dot(Cross(bi, ci), pl.n))
        area == den * den * Dot(pl.n, pl.n)
    IN  IF area = 0 THEN FALSE ELSE AlmostEqOne(abi + aci + bci, area)

IsSquare(n) == n >= 0 /\ \E s \in 0..n : s * s = n
Isqrt(n) == CHOOSE s \in 0..n : s * s = n

\* raytracer.rs 367-373: b * b - 4 * a * c
Discriminant(pl, ray_origin, ray) ==
    LET a == Dot(ray, ray)
        b == 2 * Dot(Vec3Sub(ray_origin, pl.a), ray)
        c == Dot(Vec3Sub(ray_origin, pl.a), Vec3Sub(ray_origin, pl.a)) - pl.radius * pl.radius
    IN  b * b - 4 * a * c

\* raytracer.rs 367-373: lambda1.min(lambda2); NaN when the root is of a
\* negative number
SphereLambda(pl, ray_origin, ray) ==
    LET a == Dot(ray, ray)
        b == 2 * Dot(Vec3Sub(ray_origin, pl.a), ray)
        disc == Discriminant(pl, ray_origin, ray)
    IN  IF disc < 0 THEN NaN
        ELSE MinPd(Quot(-b + Isqrt(disc), 2 * a), Quot(-b - Isqrt(disc), 2 * a))

\* raytracer.rs 240-297: lane k of the node is a hit (the mask is 0)
\* unless lambda_max < lambda_min, lambda_min > max_dist or
\* lambda_max < min_dist; an axis with ray component 0 is not looked at
RECURSIVE Slab(_, _, _, _, _)
Slab(box, ray_origin, ray, axis, acc) ==
    IF axis = 4 THEN acc
    ELSE LET a == Quot(box.min[axis] - ray_origin[axis], ray[axis])
             b == Quot(box.max[axis] - ray_origin[axis], ray[axis])
             next == IF ray[axis] > 0
                     THEN [lambda_min |-> MaxPd(acc.lambda_min, a),
                           lambda_max |-> MinPd(acc.lambda_max, b)]
                     ELSE IF ray[axis] < 0
                     THEN [lambda_min |-> MaxPd(acc.lambda_min, b),
                           lambda_max |-> MinPd(acc.lambda_max, a)]
                     ELSE acc
         IN  Slab(box, ray_origin, ray, axis + 1, next)

LaneHit(node, k, ray_origin, ray, min_d, max_d) ==
    LET s == Slab(GetAabb(node, k), ray_origin, ray, 1,
                  [lambda_min |-> NegInfinity, lambda_max |-> Infinity])
    IN  ~(\/ Lt(s.lambda_max, s.lambda_min)
          \/ Gt(s.lambda_min, max_d)
          \/ Lt(s.lambda_max, min_d))

\* lambda < max_dist where max_dist is the lambda of an earlier hit.  Both
\* are f64 quotients.  When they are equal in exact arithmetic, the
\* quotients of a ray of whole length are equal in f64 as well and the
\* earlier hit is kept; those of a ray whose length was drawn in between
\* differ in the last place, either way: tie says whether the later hit
\* then replaces the earlier one.
LtRounded(lambda, max_d, hit_before, tie) ==
    \/ Lt(lambda, max_d)
    \/ tie = "replace" /\ hit_before /\ Le(lambda, max_d) /\ Le(max_d, lambda)

\* raytracer.rs 343: the triangle's lambda replaces the result
TriangleTakes(lambda, max_d, hit_before, tie) ==
    LtRounded(lambda, max_d, hit_before, tie)

\* raytracer.rs 374: the sphere's lambda replaces the result
SphereTakes(lambda, min_d, max_d, hit_before, tie) ==
    LtRounded(lambda, max_d, hit_before, tie)

\* raytracer.rs 299-386: the lanes i..3 of the popped node, in order;
\* st is the result, max_dist and the stack so far
RECURSIVE Lanes(_, _, _, _)
Lanes(st, node_index, hits, i) ==
    IF i = 4 THEN st
    ELSE LET v == NodeAt(nodes, node_index).value[i + 1]
             g == objects[v.obj]
             tl == TriangleLambda(g, shot.ray_origin, shot.ray)
             sl == SphereLambda(g, shot.ray_origin, shot.ray)
             next ==
                 IF ~hits[i + 1] \/ v.tag = "Empty" THEN st
                 ELSE IF v.tag = "Node"
                 THEN [st EXCEPT !.stack = Append(@, node_index * 4 + i + 1)]
                 ELSE IF g.kind = "Triangle"
                 THEN IF \/ ~IsFinite(tl)
                         \/ Lt(tl, shot.min_dist)
                         \/ Gt(tl, st.max_dist)
                         \/ ~BarycentricSumIsOne(g, shot.ray_origin, shot.ray, tl)
                         \/ ~TriangleTakes(tl, st.max_dist, st.result # <<>>, shot.tie)
                      THEN st
                      ELSE [st EXCEPT !.result = [lambda |-> tl, obj |-> v.obj],
                                      !.max_dist = tl]
                 ELSE IF SphereTakes(sl, shot.min_dist, st.max_dist, st.result # <<>>,
                                     shot.tie)
                      THEN [st EXCEPT !.result = [lambda |-> sl, obj |-> v.obj],
                                      !.max_dist = sl]
                      ELSE st
         IN  Lanes(next, node_index, hits, i + 1)

\* The calls: rays aimed at or past the objects of the scene, along the
\* axes and two diagonals, some of twice the length, with the bounds the
\* renderer passes (1 and EPS below; 1 and INFINITY above) and 2.
Directions ==
    {<<1, 0, 0>>, <<0, 1, 0>>, <<0, 0, 1>>, <<0, 0, -1>>, <<0, 2, 0>>,
     <<1, 1, 0>>, <<0, -1, 1>>}
Offsets == {<<0, 0, 0>>, <<1, 1, 1>>}
MinDists == {Eps, <<1, 1>>}
MaxDists == {<<1, 1>>, <<2, 1>>, Infinity}

\* every square root the call takes is of a perfect square
RootsExact(ray_origin, ray) ==
    \A j \in 1..Len(objects) :
        objects[j].kind = "PointLight" =>
            LET disc == Discriminant(objects[j], ray_origin, ray)
            IN  disc < 0 \/ IsSquare(disc)

Shots ==
    {s \in [ray_origin : {Vec3Sub(Vec3Add(objects[j].a, off), Vec3Scale(m, dir)) :
                            j \in 1..Len(objects), off \in Offsets,
                            m \in 0..MaxSteps, dir \in Directions},
            ray : Directions, min_dist : MinDists, max_dist : MaxDists,
            tie : {"keep"}] :
        RootsExact(s.ray_origin, s.ray)}

NoResult == <<>>

RayIdle ==
    /\ shot = <<>>
    /\ todo_stack = <<>>
    /\ max_dist = NaN
    /\ result = NoResult
    /\ rpc = "idle"

RayReady ==
    /\ shot = <<>>
    /\ todo_stack = <<>>
    /\ max_dist = NaN
    /\ result = NoResult
    /\ rpc = "ready"

\* raytracer.rs 182-201: the call on bvh.root(); result = None, the stack
\* cleared and the root pushed
ShootStart ==
    /\ bpc = "done"
    /\ rpc = "ready"
    /\ \E s \in Shots :
          /\ shot' = s
          /\ max_dist' = s.max_dist
    /\ todo_stack' = <<0>>
    /\ result' = NoResult
    /\ rpc' = "loop"
    /\ UNCHANGED nonRayVars

\* raytracer.rs 202-387: one round of the while loop: pop a node, test its
\* four boxes against the max_dist of this moment, handle the four lanes
VisitNode ==
    /\ rpc = "loop"
    /\ todo_stack # <<>>
    /\ LET node_index == todo_stack[Len(todo_stack)]
           node == NodeAt(nodes, node_index)
           hits == [k \in 1..4 |->
                      LaneHit(node, k - 1, shot.ray_origin, shot.ray, shot.min_dist, max_dist)]
           st == Lanes([result |-> result, max_dist |-> max_dist,
                        stack |-> SubSeq(todo_stack, 1, Len(todo_stack) - 1)],
                       node_index, hits, 0)
       IN  /\ result' = st.result
           /\ max_dist' = st.max_dist
           /\ todo_stack' = st.stack
    /\ UNCHANGED <<shot, rpc>>
    /\ UNCHANGED nonRayVars

\* raytracer.rs 389: the stack is empty, the result is returned
ShootReturn ==
    /\ rpc = "loop"
    /\ todo_stack = <<>>
    /\ rpc' = "returned"
    /\ UNCHANGED <<shot, todo_stack, max_dist, result>>
    /\ UNCHANGED nonRayVars

(***************************************************************************)
(* Texture sampling: scene/nodes/tex_image.rs, scene/image.rs              *)
(*                                                                         *)
(* A sample position is held in pixel units as an integer count of         *)
(* sub-pixel steps, SubPixel steps to the pixel; half a pixel is HalfSteps *)
(* steps.  The interpolation weights are then integers over SubPixel and   *)
(* the outputs integers over SubPixel * SubPixel, the values the code      *)
(* computes in f64 without rounding.                                       *)
(***************************************************************************)
SubPixel == 2 * HalfSteps

\* Rust's / and % on isize truncate toward zero
TruncDiv(n, d) == IF n >= 0 THEN n \div d ELSE -((-n) \div d)
TruncRem(n, d) == n - d * TruncDiv(n, d)

\* tex_image.rs 49-55
RealMod(num, mod_by) ==
    IF num >= 0
    THEN TruncRem(num, mod_by)
    ELSE -TruncRem(-num, mod_by) + mod_by

\* floor(num) where the pixel centres are wanted: the whole pixel below
FloorWhole(X) == (X \div SubPixel) * SubPixel

\* tex_image.rs 57-59: (num - 0.5).trunc() + 0.5
Floor05(X) == TruncDiv(X - HalfSteps, SubPixel) * SubPixel + HalfSteps

\* floor05(ideal).floor() as isize
FloorAsIsize(F) == F \div SubPixel

Vec4Scale(v, s) == [k \in 1..4 |-> v[k] * s]
Vec4Add(u, v) == [k \in 1..4 |-> u[k] + v[k]]

\* image.rs 77-79: the index into content; Vec indexing panics past the end
ImageIndex(img, x, y) == img.w * y + x
ImageGet(img, x, y) == img.content[ImageIndex(img, x, y) + 1]

\* an image of w * h pixels that differ from each other
GenImage(w, h) ==
    [w |-> w, h |-> h,
     content |-> [i \in 1..(w * h) |-> <<i * i, i + 1, 2 * i + 1, 1 + (i % 2)>>]]

\* tex_image.rs 15-46: the four reads in the order p1, p2, p3, p4, the
\* reads done until one of them panics, and the two outputs COLOR, ALPHA
TexEvaluate(img, X, Y) ==
    LET fx == Floor05(X)
        fy == Floor05(Y)
        nx == FloorAsIsize(fx)
        ny == FloorAsIsize(fy)
        calls == << [nx |-> nx,     ny |-> ny,
                     x |-> RealMod(nx, img.w),     y |-> RealMod(ny, img.h)],
                    [nx |-> nx + 1, ny |-> ny,
                     x |-> RealMod(nx + 1, img.w), y |-> RealMod(ny, img.h)],
                    [nx |-> nx,     ny |-> ny + 1,
                     x |-> RealMod(nx, img.w),     y |-> RealMod(ny + 1, img.h)],
                    [nx |-> nx + 1, ny |-> ny + 1,
                     x |-> RealMod(nx + 1, img.w), y |-> RealMod(ny + 1, img.h)] >>
        bad == {k \in 1..4 : ImageIndex(img, calls[k].x, calls[k].y) >= Len(img.content)}
        wx1 == X - fx
        wx0 == fx + SubPixel - X
        wy1 == Y - fy
        wy0 == fy + SubPixel - Y
    IN  IF bad # {}
        THEN [panicked |-> TRUE,
              gets |-> SubSeq(calls, 1, CHOOSE k \in bad : \A l \in bad : k <= l),
              weights |-> <<>>,
              outputs |-> <<>>]
        ELSE LET p1 == ImageGet(img, calls[1].x, calls[1].y)
                 p2 == ImageGet(img, calls[2].x, calls[2].y)
                 p12 == Vec4Add(Vec4Scale(p2, wx1), Vec4Scale(p1, wx0))
                 p3 == ImageGet(img, calls[3].x, calls[3].y)
                 p4 == ImageGet(img, calls[4].x, calls[4].y)
                 p34 == Vec4Add(Vec4Scale(p4, wx1), Vec4Scale(p3, wx0))
                 p1234 == Vec4Add(Vec4Scale(p34, wy1), Vec4Scale(p12, wy0))
             IN  [panicked |-> FALSE,
                  gets |-> calls,
                  weights |-> <<wx0 * wy0, wx1 * wy0, wx0 * wy1, wx1 * wy1>>,
                  outputs |-> <<p1234, p1234[4]>>]

NoSample == [panicked |-> FALSE, gets |-> <<>>, weights |-> <<>>, outputs |-> <<>>]

TexIdle ==
    /\ image = GenImage(1, 1)
    /\ tex_pos = <<0, 0>>
    /\ tex_shift = <<0, 0>>
    /\ tex_out = NoSample
    /\ tex_shifted_out = NoSample
    /\ tpc = "idle"

\* an image and a sample position from one pixel before the image to its
\* far edge
TexStart(w, h, X, Y) ==
    /\ image = GenImage(w, h)
    /\ tex_pos = <<X, Y>>
    /\ tex_shift = <<0, 0>>
    /\ tex_out = NoSample
    /\ tex_shifted_out = NoSample
    /\ tpc = "ready"

\* Node::evaluate at the position
Sample ==
    /\ tpc = "ready"
    /\ tex_out' = TexEvaluate(image, tex_pos[1], tex_pos[2])
    /\ tpc' = "sampled"
    /\ UNCHANGED <<image, tex_pos, tex_shift, tex_shifted_out>>
    /\ UNCHANGED nonTexVars

\* Node::evaluate at the position moved by k image widths and j image heights
SampleShifted ==
    /\ tpc = "sampled"
    /\ \E k \in (-MaxShift)..MaxShift, j \in (-MaxShift)..MaxShift :
          /\ tex_shift' = <<k, j>>
          /\ tex_shifted_out' = TexEvaluate(image,
                                            tex_pos[1] + k * image.w * SubPixel,
                                            tex_pos[2] + j * image.h * SubPixel)
    /\ tpc' = "shifted"
    /\ UNCHANGED <<image, tex_pos, tex_out>>
    /\ UNCHANGED nonTexVars

(***************************************************************************)
(* Material graphs: import/blender.rs 304-375, scene/nodes/graph.rs,       *)
(* scene/scene.rs 13-17                                                    *)
(*                                                                         *)
(* A material of the scene file is its nodes in the order of the BTreeMap  *)
(* (by name); a node is named by its position in that order, so the name   *)
(* Len(material) is the name of no node.  An f64 is a pair <<n, d>>, a     *)
(* Vec4 or Vec3 a tuple of numerators over one denominator.                *)
(***************************************************************************)
NodeTypes == {"OUTPUT_MATERIAL", "BSDF_PRINCIPLED", "TEX_IMAGE"}

\* the input sockets of a node type, in the order evaluate reads them
InputSockets(type) ==
    CASE type = "OUTPUT_MATERIAL" -> <<"surface">>
      [] type = "BSDF_PRINCIPLED" -> <<"base_color", "specular", "metallic">>
      [] type = "TEX_IMAGE" -> <<>>

\* the type parameter T of the Link<T> fed by a socket
SocketType(socket) ==
    CASE socket = "surface" -> "Bsdf"
      [] socket = "base_color" -> "Vec4"
      [] socket = "specular" -> "F64"
      [] socket = "metallic" -> "F64"

\* blender.rs 107-115: Ok(index of the output) or Err
MapOutput(type, socket) ==
    CASE type = "BSDF_PRINCIPLED" /\ socket = "bsdf" -> [ok |-> TRUE, index |-> 0]
      [] type = "TEX_IMAGE" /\ socket = "color" -> [ok |-> TRUE, index |-> 0]
      [] type = "TEX_IMAGE" /\ socket = "alpha" -> [ok |-> TRUE, index |-> 1]
      [] OTHER -> [ok |-> FALSE, index |-> 0]

OutputBsdf(b) == [ty |-> "Bsdf", val |-> b]
OutputVec4(v) == [ty |-> "Vec4", val |-> v]
OutputF64(f) == [ty |-> "F64", val |-> f]

\* blender.rs 332-341: what the mapper makes of a VALUE socket
MapValue(socket) ==
    CASE socket = "surface" ->
            OutputBsdf([color |-> [num |-> <<1, 1, 1>>, den |-> 1],
                        specular |-> <<0, 1>>, metallic |-> <<0, 1>>])
      [] socket = "base_color" -> OutputVec4([num |-> <<1, 2, 3, 1>>, den |-> 1])
      [] socket = "specular" -> OutputF64(<<1, 2>>)
      [] socket = "metallic" -> OutputF64(<<1, 1>>)

ValueSocket == [type |-> "VALUE"]
LinkSocket(from_node, from_socket) ==
    [type |-> "LINK", from_node |-> from_node, from_socket |-> from_socket]

LinkConstant(c) == [link |-> "Constant", c |-> c]
LinkNode(idx, socket) == [link |-> "Node", idx |-> idx, socket |-> socket]

\* blender.rs 128-142: BlenderSocket::to_link
ToLink(mat, socket, name) ==
    IF socket.type = "VALUE"
    THEN [ok |-> TRUE, link |-> LinkConstant(MapValue(name)), error |-> ""]
    ELSE IF socket.from_node >= Len(mat)
    THEN [ok |-> FALSE, link |-> <<>>, error |-> "Node not found"]
    ELSE LET out == MapOutput(mat[socket.from_node + 1].type, socket.from_socket)
         IN  IF out.ok
             THEN [ok |-> TRUE, link |-> LinkNode(socket.from_node, out.index), error |-> ""]
             ELSE [ok |-> FALSE, link |-> <<>>, error |-> "Unknown output socket"]

OutputNodes(mat) ==
    {i \in 1..Len(mat) : mat[i].type = "OUTPUT_MATERIAL"}

SocketLinks(mat, i) ==
    [k \in 1..Len(mat[i].sockets) |->
        ToLink(mat, mat[i].sockets[k], InputSockets(mat[i].type)[k])]

\* blender.rs 304-375: Err for a second or a missing OUTPUT_MATERIAL and for
\* the first socket that to_link refuses, else (output_index, node_graph)
Import(mat) ==
    LET outs == OutputNodes(mat)
        links == [i \in 1..Len(mat) |-> SocketLinks(mat, i)]
        failed == {ik \in (1..Len(mat)) \X (1..3) :
                     /\ ik[2] <= Len(links[ik[1]])
                     /\ ~links[ik[1]][ik[2]].ok}
        first == CHOOSE ik \in failed :
                    \A o \in failed : ik[1] < o[1] \/ (ik[1] = o[1] /\ ik[2] <= o[2])
    IN  IF Cardinality(outs) > 1
        THEN [ok |-> FALSE, error |-> "Duplicate OUTPUT_MATERIAL", output_index |-> 0,
              nodes |-> <<>>]
        ELSE IF outs = {}
        THEN [ok |-> FALSE, error |-> "Missing OUTPUT_MATERIAL", output_index |-> 0,
              nodes |-> <<>>]
        ELSE IF failed # {}
        THEN [ok |-> FALSE, error |-> links[first[1]][first[2]].error, output_index |-> 0,
              nodes |-> <<>>]
        ELSE [ok |-> TRUE, error |-> "",
              output_index |-> (CHOOSE i \in outs : TRUE) - 1,
              nodes |-> [i \in 1..Len(mat) |->
                           [type |-> mat[i].type,
                            inputs |-> [k \in 1..Len(links[i]) |-> links[i][k].link]]]]

NoGraph == [ok |-> FALSE, error |-> "", output_index |-> 0, nodes |-> <<>>]

\* a from_output that takes any variant
FromOutputCoerces(output, type) == FALSE

\* graph.rs 24-62: LinkType::from_output fits the variant or panics
FromOutputPanics(output, type) == output.ty # type

\* rendering.rs 38: the texture coordinate handed to evaluate_material, and
\* the image of the scene that a TEX_IMAGE node reads
MaterialTexCoord == <<0, 0>>
MaterialImage == GenImage(2, 2)

\* Node::evaluate once its links are evaluated: output_material.rs 15-17,
\* bsdf_principled.rs 18-25, tex_image.rs 15-46
NodeOutputs(type, vals) ==
    CASE type = "OUTPUT_MATERIAL" -> <<OutputBsdf(vals[1])>>
      [] type = "BSDF_PRINCIPLED" ->
            <<OutputBsdf([color |-> [num |-> SubSeq(vals[1].num, 1, 3), den |-> vals[1].den],
                          specular |-> <<vals[2][1] * 8, vals[2][2] * 100>>,
                          metallic |-> vals[3]])>>
      [] type = "TEX_IMAGE" ->
            LET t == TexEvaluate(MaterialImage, MaterialTexCoord[1], MaterialTexCoord[2])
            IN  <<OutputVec4([num |-> t.outputs[1], den |-> SubPixel * SubPixel]),
                  OutputF64(<<t.outputs[2], SubPixel * SubPixel>>)>>

\* the caller of evaluate_link in evaluate_material: scene.rs 16
RootFrame == [node |-> -1, k |-> 0, vals |-> <<>>]

\* the links a frame evaluates, in order, and the type each is read as
FrameLinks(f) ==
    IF f.node = -1
    THEN <<LinkNode(graph.output_index, 0)>>
    ELSE graph.nodes[f.node + 1].inputs

FrameTypes(f) ==
    IF f.node = -1
    THEN <<"Bsdf">>
    ELSE [k \in 1..Len(InputSockets(graph.nodes[f.node + 1].type)) |->
            SocketType(InputSockets(graph.nodes[f.node + 1].type)[k])]

TopFrame == call_stack[Len(call_stack)]
TopLink == FrameLinks(TopFrame)[TopFrame.k + 1]
TopType == FrameTypes(TopFrame)[TopFrame.k + 1]
TopPending == TopFrame.k < Len(FrameLinks(TopFrame))

\* the top frame with one more link evaluated
Advance(v) ==
    [call_stack EXCEPT ![Len(call_stack)] =
        [@ EXCEPT !.k = @ + 1, !.vals = Append(@, v)]]

NoCache == <<>>

GraphIdle ==
    /\ material = <<>>
    /\ graph = NoGraph
    /\ node_results = <<>>
    /\ call_stack = <<>>
    /\ evaluations = <<>>
    /\ contexts = 0
    /\ bsdf = <<>>
    /\ gpc = "idle"

GraphStart(mat) ==
    /\ material = mat
    /\ graph = NoGraph
    /\ node_results = <<>>
    /\ call_stack = <<>>
    /\ evaluations = <<>>
    /\ contexts = 0
    /\ bsdf = <<>>
    /\ gpc = "file"

\* blender.rs 304-375
ImportMaterial ==
    /\ gpc = "file"
    /\ graph' = Import(material)
    /\ gpc' = IF Import(material).ok THEN "imported" ELSE "rejected"
    /\ UNCHANGED <<material, node_results, call_stack, evaluations, contexts, bsdf>>
    /\ UNCHANGED nonGraphVars

\* scene.rs 13-16 and graph.rs 109-111: a shading invocation makes its
\* context and asks for Link::Node(output_index, SURFACE)
NewContext ==
    /\ gpc \in {"imported", "returned"}
    /\ contexts < MaxContexts
    /\ node_results' = [i \in 1..Len(graph.nodes) |-> NoCache]
    /\ evaluations' = [i \in 1..Len(graph.nodes) |-> 0]
    /\ call_stack' = <<RootFrame>>
    /\ contexts' = contexts + 1
    /\ gpc' = "evaluating"
    /\ UNCHANGED <<material, graph, bsdf>>
    /\ UNCHANGED nonGraphVars

\* graph.rs 79: Link::Constant(c) => c
EvaluateConstant ==
    /\ gpc = "evaluating"
    /\ TopPending
    /\ TopLink.link = "Constant"
    /\ call_stack' = Advance(TopLink.c.val)
    /\ UNCHANGED <<material, graph, node_results, evaluations, contexts, bsdf, gpc>>
    /\ UNCHANGED nonGraphVars

\* graph.rs 81-83: no result yet, the node's evaluate is called; the thread
\* dies when its stack is used up
EvaluateNode ==
    /\ gpc = "evaluating"
    /\ TopPending
    /\ TopLink.link = "Node"
    /\ node_results[TopLink.idx + 1] = NoCache
    /\ IF Len(call_stack) < StackLimit
       THEN /\ call_stack' = Append(call_stack, [node |-> TopLink.idx, k |-> 0, vals |-> <<>>])
            /\ evaluations' = [evaluations EXCEPT ![TopLink.idx + 1] = @ + 1]
            /\ gpc' = "evaluating"
       ELSE /\ gpc' = "overflow"
            /\ UNCHANGED <<call_stack, evaluations>>
    /\ UNCHANGED <<material, graph, node_results, contexts, bsdf>>
    /\ UNCHANGED nonGraphVars

\* evaluate returned and its outputs are dropped
ForgetResult ==
    /\ gpc = "evaluating"
    /\ ~TopPending
    /\ TopFrame.node # -1
    /\ call_stack' = SubSeq(call_stack, 1, Len(call_stack) - 1)
    /\ UNCHANGED <<material, graph, node_results, evaluations, contexts, bsdf, gpc>>
    /\ UNCHANGED nonGraphVars

\* graph.rs 82: the Vec<Output> that evaluate returned is stored
StoreResult ==
    /\ gpc = "evaluating"
    /\ ~TopPending
    /\ TopFrame.node # -1
    /\ node_results' = [node_results EXCEPT ![TopFrame.node + 1] =
                          NodeOutputs(graph.nodes[TopFrame.node + 1].type, TopFrame.vals)]
    /\ call_stack' = SubSeq(call_stack, 1, Len(call_stack) - 1)
    /\ UNCHANGED <<material, graph, evaluations, contexts, bsdf, gpc>>
    /\ UNCHANGED nonGraphVars

\* graph.rs 84: the stored output of the socket is read as a T
ReadResult ==
    /\ gpc = "evaluating"
    /\ TopPending
    /\ TopLink.link = "Node"
    /\ node_results[TopLink.idx + 1] # NoCache
    /\ LET output == node_results[TopLink.idx + 1][TopLink.socket + 1]
       IN  IF FromOutputPanics(output, TopType)
           THEN /\ gpc' = "panicked"
                /\ UNCHANGED call_stack
           ELSE /\ call_stack' = Advance(output.val)
                /\ gpc' = "evaluating"
    /\ UNCHANGED <<material, graph, node_results, evaluations, contexts, bsdf>>
    /\ UNCHANGED nonGraphVars

\* scene.rs 16: evaluate_material returns the Bsdf
ReturnBsdf ==
    /\ gpc = "evaluating"
    /\ ~TopPending
    /\ TopFrame.node = -1
    /\ bsdf' = TopFrame.vals[1]
    /\ call_stack' = <<>>
    /\ gpc' = "returned"
    /\ UNCHANGED <<material, graph, node_results, evaluations, contexts>>
    /\ UNCHANGED nonGraphVars

\* the materials of the scene file: these node types in this order, at most
\* MaxLinks of the sockets linked, each to an output of a node, to a socket
\* that no node has, or to a node that is not there
LinkChoices(types) ==
    {LinkSocket(js[1] - 1, js[2]) :
        js \in {o \in (1..Len(types)) \X {"bsdf", "color", "alpha"} :
                  MapOutput(types[o[1]], o[2]).ok}}
        \cup {LinkSocket(0, "surface"), LinkSocket(Len(types), "bsdf")}

SocketPositions(types) ==
    {ik \in (1..Len(types)) \X (1..3) : ik[2] <= Len(InputSockets(types[ik[1]]))}

MaterialsOf(types) ==
    UNION {
        {[i \in 1..Len(types) |->
            [type |-> types[i],
             sockets |-> [k \in 1..Len(InputSockets(types[i])) |->
                            IF <<i, k>> \in linked THEN f[<<i, k>>] ELSE ValueSocket]]] :
         f \in [linked -> LinkChoices(types)]} :
        linked \in {l \in SUBSET SocketPositions(types) : Cardinality(l) <= MaxLinks}}

Shapes ==
    {<<"OUTPUT_MATERIAL", "BSDF_PRINCIPLED", "TEX_IMAGE">>,
     <<"BSDF_PRINCIPLED", "BSDF_PRINCIPLED", "OUTPUT_MATERIAL">>,
     <<"BSDF_PRINCIPLED", "TEX_IMAGE">>,
     <<"OUTPUT_MATERIAL", "OUTPUT_MATERIAL">>}

Materials == UNION {MaterialsOf(types) : types \in Shapes}

(***************************************************************************)
(* Shading: tracing/rendering.rs                                           *)
(*                                                                         *)
(* handle_ray as a stack of frames, one per call in progress; its calls of *)
(* trace_ray are runs of the shoot_ray machine above.  The scenes are laid *)
(* out along the axes so that normalising a vector and the hit positions   *)
(* are exact in integers.  Of the colour a frame sums up, the model keeps  *)
(* what went into it: whether the reflected colour was added and how many  *)
(* light samples added light.                                              *)
(***************************************************************************)
RAdd(a, b) == <<a[1] * b[2] + b[1] * a[2], a[2] * b[2]>>
RSub(a, b) == <<a[1] * b[2] - b[1] * a[2], a[2] * b[2]>>
RMul(a, b) == <<a[1] * b[1], a[2] * b[2]>>
ROne == <<1, 1>>
RZero == <<0, 1>>
\* x > EPS for x = n / d with d > 0: n * EpsInverse > d
GtEps(x) == x[1] > x[2] \div EpsInverse

\* a triangle with the same normal n at its three vertices and a material
\* that evaluates to the Bsdf (colour, specular, metallic)
ShadedTriangle(a, b, c, n, specular, metallic) ==
    [kind |-> "Triangle", a |-> a, b |-> b, c |-> c, radius |-> 0, normal |-> n,
     bsdf |-> [color |-> <<1, 1, 1>>, specular |-> specular, metallic |-> metallic]]

SceneLight(pos, radius) ==
    [kind |-> "PointLight", a |-> pos, b |-> pos, c |-> pos, radius |-> radius,
     normal |-> <<0, 0, 0>>,
     bsdf |-> [color |-> <<1, 1, 1>>, specular |-> RZero, metallic |-> RZero]]

\* Vec3::normalize of a vector along an axis
IsAxial(v) ==
    Cardinality({k \in 1..3 : v[k] # 0}) = 1
Normalize(v) ==
    CASE IsAxial(v) -> <<Sign(v[1]), Sign(v[2]), Sign(v[3])>>

\* RayShootResult.position: origin + lambda * ray
HitPosition(origin, ray, lambda) ==
    CASE \A k \in 1..3 : (lambda[1] * ray[k]) % lambda[2] = 0 ->
        <<origin[1] + (lambda[1] * ray[1]) \div lambda[2],
          origin[2] + (lambda[1] * ray[2]) \div lambda[2],
          origin[3] + (lambda[1] * ray[3]) \div lambda[2]>>

\* rendering.rs 109-111
ReflectRay(ray, n) == Vec3Sub(ray, Vec3Scale(2 * Dot(ray, n), n))

\* rendering.rs 113-115
AntiBounceMaterial(b) == [color |-> b.color, specular |-> RZero, metallic |-> RZero]

\* scene.rs 13-17 on the materials of these scenes
EvaluateMaterial(triangle) == triangle.bsdf

\* the material is taken as it is whatever max_bounces is
BounceMaterialKept(b, max_bounces) == b

\* rendering.rs 39
BounceMaterial(b, max_bounces) ==
    IF max_bounces = 0 THEN AntiBounceMaterial(b) ELSE b

\* rendering.rs 43
Reflects(b) == GtEps(b.specular) \/ GtEps(b.metallic)

\* rendering.rs 47-49
FresnelSpecular(specular, metallic, n, r) ==
    LET cos_n_ray == Dot(n, r)
        rest == RMul(RSub(ROne, specular), <<Pow(1 - cos_n_ray, 5), 1>>)
    IN  RMul(RAdd(specular, rest), RSub(ROne, metallic))

\* rendering.rs 54
Diffuse(b, specular) == RSub(RSub(ROne, b.metallic), specular)

\* scene.point_lights
IsPointLight(j) == objects[j].kind = "PointLight"
PointLights == SelectSeq([j \in 1..Len(objects) |-> j], IsPointLight)

\* rendering.rs 66-80: r is sqrt(u) * radius with u drawn from [0, 1], any
\* real in [0, radius].  The model draws r whole, or between r - 1 and r.
\* The places of the scenes are whole, so a ray drawn between r - 1 and r
\* has the hits of the ray of r within its bounds and in the same order,
\* and it is shot as that ray; what differs is that f64 rounds its
\* quotients, which orders two hits at one and the same lambda either way.
\* With light_ray along z, circle_radius_vec is light_ray itself and the
\* rotation about light_ray leaves it in place whatever phi is.
SampleDest(light, light_ray, r) ==
    CASE r = 0 -> light.a
      [] r # 0 /\ light_ray[1] = 0 /\ light_ray[2] = 0 ->
            Vec3Add(light.a, Vec3Scale(r, light_ray))

NoFrameHit == [obj |-> 0, p |-> <<0, 0, 0>>, n |-> <<0, 0, 0>>, r |-> <<0, 0, 0>>]

\* the frame of a call of handle_ray
NewFrame(origin, ray, lambda_min, max_bounces) ==
    [origin |-> origin, ray |-> ray, lambda_min |-> lambda_min,
     max_bounces |-> max_bounces, pc |-> "call", hit |-> NoFrameHit,
     bsdf |-> AntiBounceMaterial([color |-> <<0, 0, 0>>]), specular |-> RZero,
     reflected |-> FALSE, light |-> 0, sample |-> 0, lit |-> 0]

Top == frames[Len(frames)]
SetTop(f) == [frames EXCEPT ![Len(frames)] = f]
Callers == SubSeq(frames, 1, Len(frames) - 1)

\* rendering.rs 44-52: the caller goes on with what the reflected ray gave
Resumed(caller, ret) ==
    IF ret = "Some"
    THEN [caller EXCEPT !.specular = FresnelSpecular(caller.specular, caller.bsdf.metallic,
                                                     caller.hit.n, caller.hit.r),
                        !.reflected = TRUE,
                        !.pc = "diffuse"]
    ELSE [caller EXCEPT !.pc = "diffuse"]

\* the top frame returns ret
ReturnFromTop(ret) ==
    IF Len(frames) = 1
    THEN /\ frames' = <<>>
         /\ outcome' = ret
         /\ spc' = "returned"
    ELSE /\ frames' = [Callers EXCEPT ![Len(frames) - 1] = Resumed(@, ret)]
         /\ UNCHANGED <<outcome, spc>>

NoShadow == [light |-> 0, occluded |-> FALSE]

ShadeIdle ==
    /\ primary = <<>>
    /\ frames = <<>>
    /\ outcome = "Pending"
    /\ shadow = NoShadow
    /\ spc = "idle"

ShadeStart(origin, ray) ==
    /\ primary = [origin |-> origin, ray |-> ray]
    /\ frames = <<>>
    /\ outcome = "Pending"
    /\ shadow = NoShadow
    /\ spc = "ready"

\* the call of trace_ray that the shoot_ray machine runs
Traces(ray_origin, ray, min_d, max_d, tie) ==
    /\ rpc \in {"ready", "returned"}
    /\ shot' = [ray_origin |-> ray_origin, ray |-> ray, min_dist |-> min_d,
                max_dist |-> max_d, tie |-> tie]
    /\ max_dist' = max_d
    /\ todo_stack' = <<0>>
    /\ result' = NoResult
    /\ rpc' = "loop"

\* rendering.rs 17-18: handle_ray(.., camera.position, ray, 1.0, 1024, ..)
RenderSubpixelCall ==
    /\ bpc = "done"
    /\ spc = "ready"
    /\ frames' = <<NewFrame(primary.origin, primary.ray, ROne, PrimaryBounces)>>
    /\ spc' = "running"
    /\ UNCHANGED <<primary, outcome, shadow>>
    /\ UNCHANGED nonShadeVars

\* rendering.rs 30-33
TraceRay ==
    /\ spc = "running"
    /\ Top.pc = "call"
    /\ Traces(Top.origin, Top.ray, Top.lambda_min, Infinity, "keep")
    /\ frames' = SetTop([Top EXCEPT !.pc = "traced"])
    /\ UNCHANGED <<primary, outcome, shadow, spc>>
    /\ UNCHANGED nonShadeRayVars

\* rendering.rs 104-106
HitNothing ==
    /\ spc = "running"
    /\ Top.pc = "traced"
    /\ rpc = "returned"
    /\ result = NoResult
    /\ ReturnFromTop("None")
    /\ UNCHANGED <<primary, shadow>>
    /\ UNCHANGED nonShadeVars

\* rendering.rs 102
HitLight ==
    /\ spc = "running"
    /\ Top.pc = "traced"
    /\ rpc = "returned"
    /\ result # NoResult
    /\ objects[result.obj].kind = "PointLight"
    /\ ReturnFromTop("Some")
    /\ UNCHANGED <<primary, shadow>>
    /\ UNCHANGED nonShadeVars

\* rendering.rs 36-45: the reflected ray, the material, and the call for
\* the reflected ray when the material reflects
HitTriangle ==
    /\ spc = "running"
    /\ Top.pc = "traced"
    /\ rpc = "returned"
    /\ result # NoResult
    /\ objects[result.obj].kind = "Triangle"
    /\ LET n == objects[result.obj].normal
           p == HitPosition(Top.origin, Top.ray, result.lambda)
           r == ReflectRay(Normalize(Top.ray), n)
           b == BounceMaterial(EvaluateMaterial(objects[result.obj]), Top.max_bounces)
           f == [Top EXCEPT !.hit = [obj |-> result.obj, p |-> p, n |-> n, r |-> r],
                            !.bsdf = b,
                            !.specular = b.specular]
       IN  IF Reflects(b)
           THEN frames' = Append(SetTop([f EXCEPT !.pc = "reflecting"]),
                                 NewFrame(p, r, Eps, Top.max_bounces - 1))
           ELSE frames' = SetTop([f EXCEPT !.pc = "diffuse"])
    /\ UNCHANGED <<primary, outcome, shadow, spc>>
    /\ UNCHANGED nonShadeVars

\* rendering.rs 54-56
StartLights ==
    /\ spc = "running"
    /\ Top.pc = "diffuse"
    /\ IF GtEps(Diffuse(Top.bsdf, Top.specular))
       THEN frames' = SetTop([Top EXCEPT !.pc = "light", !.light = 1])
       ELSE frames' = SetTop([Top EXCEPT !.pc = "finish"])
    /\ UNCHANGED <<primary, outcome, shadow, spc>>
    /\ UNCHANGED nonShadeVars

\* rendering.rs 56-63: the next light; it is skipped when it is behind the
\* surface
NextLight ==
    /\ spc = "running"
    /\ Top.pc = "light"
    /\ Top.light <= Len(PointLights)
    /\ LET point_light == objects[PointLights[Top.light]]
           light_ray == Normalize(Vec3Sub(point_light.a, Top.hit.p))
           cos_n_light_ray == Dot(Top.hit.n, light_ray)
       IN  IF cos_n_light_ray <= 0
           THEN frames' = SetTop([Top EXCEPT !.light = @ + 1])
           ELSE frames' = SetTop([Top EXCEPT !.pc = "sample", !.sample = 0])
    /\ UNCHANGED <<primary, outcome, shadow, spc>>
    /\ UNCHANGED nonShadeVars

\* rendering.rs 64-83: one sample of the light and its shadow ray
ShadowRay ==
    /\ spc = "running"
    /\ Top.pc = "sample"
    /\ Top.sample < SampleSize
    /\ \E r \in 0..objects[PointLights[Top.light]].radius, tie \in {"keep", "replace"} :
          /\ tie = "replace" => r > 0
          /\ LET point_light == objects[PointLights[Top.light]]
                 light_ray == Normalize(Vec3Sub(point_light.a, Top.hit.p))
                 sample_dest == SampleDest(point_light, light_ray, r)
             IN  Traces(Top.hit.p, Vec3Sub(sample_dest, Top.hit.p), Eps, ROne, tie)
    /\ frames' = SetTop([Top EXCEPT !.pc = "shadowed"])
    /\ UNCHANGED <<primary, outcome, shadow, spc>>
    /\ UNCHANGED nonShadeRayVars

\* rendering.rs 84-96: a triangle as the result of the shadow ray skips the
\* sample, anything else adds the light
ShadowResult ==
    /\ spc = "running"
    /\ Top.pc = "shadowed"
    /\ rpc = "returned"
    /\ LET occluded == result # NoResult /\ objects[result.obj].kind = "Triangle"
       IN  /\ shadow' = [light |-> PointLights[Top.light], occluded |-> occluded]
           /\ frames' = SetTop([Top EXCEPT !.pc = "sample",
                                           !.sample = @ + 1,
                                           !.lit = IF occluded THEN @ ELSE @ + 1])
    /\ UNCHANGED <<primary, outcome, spc>>
    /\ UNCHANGED nonShadeVars

\* rendering.rs 64: the samples of the light are done
SamplesDone ==
    /\ spc = "running"
    /\ Top.pc = "sample"
    /\ Top.sample = SampleSize
    /\ frames' = SetTop([Top EXCEPT !.pc = "light", !.light = @ + 1])
    /\ UNCHANGED <<primary, outcome, shadow, spc>>
    /\ UNCHANGED nonShadeVars

\* rendering.rs 56 and 100: no light is left, Some(result_color)
LightsDone ==
    /\ spc = "running"
    /\ \/ Top.pc = "finish"
       \/ Top.pc = "light" /\ Top.light > Len(PointLights)
    /\ ReturnFromTop("Some")
    /\ UNCHANGED <<primary, shadow>>
    /\ UNCHANGED nonShadeVars

\* Scenes.  Two mirrors face each other across the ray, or the second one
\* stands aside; a floor under two lights, with a triangle between the
\* lights or aside of them.  With radius 1 the sphere of the near light
\* touches the triangle at z = 1: the two are hit at one and the same
\* lambda.
Up == <<0, 0, 1>>
Down == <<0, 0, -1>>

Mirror(z, n, aside, specular, metallic) ==
    ShadedTriangle(<<aside, 0, z>>, <<aside + MirrorLeg, 0, z>>, <<aside, MirrorLeg, z>>,
                   n, specular, metallic)

MirrorScenes ==
    {<<Mirror(0, Up, 0, m[1], m[2]), Mirror(MirrorGap, Down, aside, m[1], m[2])>> :
        m \in {<<RZero, ROne>>, <<<<4, 100>>, RZero>>, <<RZero, RZero>>},
        aside \in {0, 2 * MirrorLeg}}

ShadowPlacings ==
    [zo : {1, MirrorGap}, aside : {0, 2 * MirrorLeg},
     near : 0..MaxRadius, far : 0..MaxRadius]

ShadowScenes ==
    {<<Mirror(0, Up, 0, RZero, RZero),
       Mirror(s.zo, Down, s.aside, RZero, RZero),
       SceneLight(<<1, 1, 2>>, s.near),
       SceneLight(<<1, 1, 2 * MirrorGap>>, s.far)>> : s \in ShadowPlacings}

Cameras ==
    {[origin |-> <<1, 1, 2>>, ray |-> Down],
     [origin |-> <<1, 1, -3>>, ray |-> Up],
     [origin |-> <<1, 1, 3 * MirrorGap>>, ray |-> Down],
     [origin |-> <<1, 1, -3>>, ray |-> <<0, 0, 3>>]}

(***************************************************************************)
(* Seeding of the workers' generators, tracing/mod.rs 89-91, main.rs       *)
(* 194-196. A u128 is held as its 16 big-endian bytes, the form in which   *)
(* to_be_bytes hands it to Pcg32::from_seed.                               *)
(***************************************************************************)
Zero128 == [i \in 1..SeedBytes |-> 0]
Max128 == [i \in 1..SeedBytes |-> ByteBase - 1]

\* the product of a u128 and a small factor, byte by byte from the least
\* significant one; what is carried out of the most significant byte is lost
RECURSIVE MulBytes(_, _, _, _)
MulBytes(bytes, m, i, carry) ==
    IF i = 0 THEN [value |-> bytes, overflowed |-> carry # 0]
    ELSE LET p == bytes[i] * m + carry
         IN  MulBytes([bytes EXCEPT ![i] = p % ByteBase], m, i - 1, p \div ByteBase)

SaturatingMul(bytes, m) ==
    LET r == MulBytes(bytes, m, SeedBytes, 0)
    IN  IF r.overflowed THEN [value |-> Max128, overflowed |-> TRUE] ELSE r

\* u128::overflowing_mul: (the product modulo 2^128, whether it wrapped)
OverflowingMul(bytes, m) == MulBytes(bytes, m, SeedBytes, 0)

\* seed.overflowing_mul(t as u128 + 123).0.to_be_bytes()
WorkerSeedBytes(s, t) == OverflowingMul(s, t + 123).value

\* k * 2^e modulo 2^128 as a u128, for k below 256
PowerSeed(k, e) ==
    LET v == k * Pow(2, e % 8)
        low == SeedBytes - (e \div 8)
    IN  [i \in 1..SeedBytes |->
            IF i = low THEN v % ByteBase
            ELSE IF i = low - 1 THEN v \div ByteBase
            ELSE 0]

\* default_value("4103685768640310862782726084387274121"), main.rs 62
DefaultSeed ==
    <<3, 22, 87, 84, 82, 181, 8, 216, 8, 24, 45, 161, 0, 205, 253, 137>>

\* FromStr::from_str(matches.value_of("seed")): any u128; here the default
\* and every k * 2^e for small k
ProgramSeeds ==
    {DefaultSeed} \cup
    {PowerSeed(k, e) : k \in 0..MaxSeedFactor, e \in 0..(8 * SeedBytes - 1)}

SeedIdle ==
    /\ program_seed = Zero128
    /\ thread_count = 0
    /\ worker_seeds = <<>>
    /\ sdpc = "idle"

SeedStart(s, n) ==
    /\ program_seed = s
    /\ thread_count = n
    /\ worker_seeds = <<>>
    /\ sdpc = "spawning"

\* for t in 0..thread_count: the spawned closure seeds its generator
SeedWorker ==
    /\ sdpc = "spawning"
    /\ Len(worker_seeds) < thread_count
    /\ worker_seeds' = Append(worker_seeds, WorkerSeedBytes(program_seed, Len(worker_seeds)))
    /\ UNCHANGED <<program_seed, thread_count, sdpc>>
    /\ UNCHANGED nonSeedVars

(***************************************************************************)
(* Pipeline: specifications                                                *)
(***************************************************************************)
Init == (\E c \in Configs(MaxSamples) : PipeInit(c, {1}, "unspawned")) /\ BvhIdle /\ RayIdle /\ TexIdle /\ GraphIdle /\ ShadeIdle /\ SeedIdle

WorkerStep(r, t) == Recv(r, t) \/ Check(r, t) \/ Send(r, t)
MainStep(r) == BuildBvh(r) \/ PushPositions(r) \/ Spawn(r) \/ Join(r) \/ Return(r)

Next ==
    \/ \E r \in runs : BuildBvh(r)
    \/ \E r \in runs : PushPositions(r)
    \/ \E r \in runs : Spawn(r)
    \/ \E r \in runs : Join(r)
    \/ \E r \in runs : Return(r)
    \/ \E r \in runs, t \in Threads : Recv(r, t)
    \/ \E r \in runs, t \in Threads : Check(r, t)
    \/ \E r \in runs, t \in Threads : Send(r, t)
    \/ \E r \in runs : GuiQuit(r)
    \/ \E r \in runs : GuiReturn(r)

Spec == Init /\ [][Next]_vars

\* OS threads: the main thread and every worker keep being scheduled
FairSpec ==
    /\ Spec
    /\ WF_vars(MainStep(1))
    /\ \A t \in Threads : WF_vars(WorkerStep(1, t))

\* two runs of the pipeline on the same inputs, neither of them cancelled
InitPair ==
    (\E c \in Configs(PairMaxSamples) : PipeInit(c, {1, 2}, "absent")) /\ BvhIdle /\ RayIdle /\ TexIdle /\ GraphIdle /\ ShadeIdle /\ SeedIdle

NextPair ==
    \/ \E r \in runs : BuildBvh(r)
    \/ \E r \in runs : PushPositions(r)
    \/ \E r \in runs : Spawn(r)
    \/ \E r \in runs : Join(r)
    \/ \E r \in runs : Return(r)
    \/ \E r \in runs, t \in Threads : Recv(r, t)
    \/ \E r \in runs, t \in Threads : Check(r, t)
    \/ \E r \in runs, t \in Threads : Send(r, t)

SpecPair == InitPair /\ [][NextPair]_vars

\* one run, never cancelled, on images large enough to show the sample
\* order; the larger ones with one worker
OrderConfigs ==
    {c \in [w : 1..MaxOrderW, h : 1..MaxOrderH, a : 0..MaxA, threads : 1..MaxThreads,
            seed : {0}, scene : {"void"}] :
        /\ c.w * c.h * Pow(4, c.a) <= MaxOrderSamples
        /\ c.threads = 1 \/ c.w * c.h * Pow(4, c.a) <= MaxSamples}

InitOrder == (\E c \in OrderConfigs : PipeInit(c, {1}, "absent")) /\ BvhIdle /\ RayIdle /\ TexIdle /\ GraphIdle /\ ShadeIdle /\ SeedIdle

NextOrder ==
    \/ \E r \in runs : BuildBvh(r)
    \/ \E r \in runs : PushPositions(r)
    \/ \E r \in runs : Spawn(r)
    \/ \E r \in runs : Join(r)
    \/ \E r \in runs : Return(r)
    \/ \E r \in runs, t \in Threads : Recv(r, t)
    \/ \E r \in runs, t \in Threads : Check(r, t)
    \/ \E r \in runs, t \in Threads : Send(r, t)

SpecOrder == InitOrder /\ [][NextOrder]_vars

(***************************************************************************)
(* Bvh::new: specification                                                 *)
(***************************************************************************)
PipeIdle ==
    PipeInit([w |-> 1, h |-> 1, a |-> 0, threads |-> 0, seed |-> 0, scene |-> "void"],
             {}, "absent")

InitBvh ==
    /\ PipeIdle
    /\ RayIdle
    /\ TexIdle
    /\ GraphIdle
    /\ ShadeIdle
    /\ SeedIdle
    /\ \E n \in 0..MaxObjects, p \in 1..MaxPattern, checks \in BOOLEAN :
          BvhStart(GenObjects(p, n), checks)

NextBvh ==
    \/ Allocate
    \/ Leaves
    \/ SortLeaves
    \/ SynthEmpty
    \/ SynthPromote
    \/ SynthCombine
    \/ SynthOutOfRange
    \/ SortLayer

SpecBvh == InitBvh /\ [][NextBvh]_vars

(***************************************************************************)
(* Bvh::new at a promotion: specification                                  *)
(*                                                                         *)
(* The loop of Bvh::new 148-174 at a node i whose child 0 is to be         *)
(* promoted, in trees of up to PromoteLayers layers.  swap_tree_rec reads  *)
(* no node it moves, so a node that holds something is told from the       *)
(* others by its lanes, which carry its index; the layers below i are      *)
(* built, the nodes of its layer before i as well, and the subtree of      *)
(* child 0 is full: objects.len() is 4 * 4^(L-1-l) * (i - first + 1)       *)
(* for node i of layer l, counted from the first node of that layer.       *)
(***************************************************************************)
\* the layer of node j, its parent and its ancestor in layer l
LayerOf(j) == CHOOSE l \in 0..(PromoteLayers + 1) : LayerStart(l) <= j /\ j < LayerStart(l + 1)
Parent(j) == (j - 1) \div 4
RECURSIVE AncestorAt(_, _)
AncestorAt(j, l) == IF LayerOf(j) <= l THEN j ELSE AncestorAt(Parent(j), l)

\* node j holds something when the loop of layer LayerOf(i) is at i
IsBuilt(layers, i, j) ==
    /\ LayerOf(j) >= LayerOf(i)
    /\ \/ AncestorAt(j, LayerOf(i)) < i
       \/ /\ LayerOf(j) > LayerOf(i)
          /\ AncestorAt(j, LayerOf(i) + 1) = 4 * i + 1

\* a node of the leaf layer with its four leaves, a node above it with its
\* four INNER slots
BuiltNode(layers, j) ==
    [aabb_min_x |-> <<j, j, j, j>>, aabb_min_y |-> <<j, j, j, j>>,
     aabb_min_z |-> <<j, j, j, j>>, aabb_max_x |-> <<j, j, j, j>>,
     aabb_max_y |-> <<j, j, j, j>>, aabb_max_z |-> <<j, j, j, j>>,
     value |-> IF LayerOf(j) = layers - 1
               THEN [k \in 1..4 |-> ValueLeaf(4 * (j - LayerStart(layers - 1)) + k)]
               ELSE <<ValueNode, ValueNode, ValueNode, ValueNode>>]

\* the leaves that are placed: four in every node of the leaf layer that
\* holds something
BuiltLeaves(layers, i) ==
    4 * Cardinality({j \in LayerStart(layers - 1)..(LayerStart(layers) - 1) :
                        IsBuilt(layers, i, j)})

PromoteStart(layers, i) ==
    /\ objects = GenObjects(1, BuiltLeaves(layers, i))
    /\ overflow_checks = TRUE
    /\ nodes = [j \in 1..LayerStart(layers) |->
                  IF IsBuilt(layers, i, j - 1)
                  THEN BuiltNode(layers, j - 1)
                  ELSE SentinelNode]
    /\ bpc = "synth"
    /\ layer = LayerOf(i)
    /\ next_i = i
    /\ layer_real_end = LayerStart(LayerOf(i) + 1)
    /\ failure = ""

\* the nodes at which a promotion can take place: objects.len() > 4^(L-1)
\* puts a leaf below node 2, so the node is 2, 3, 4 or below one of them,
\* and it is above the leaf layer
PromotionSites(layers) ==
    {i \in 2..(LayerStart(layers - 1) - 1) : AncestorAt(i, 1) \in {2, 3, 4}}

InitPromote ==
    /\ PipeIdle
    /\ RayIdle
    /\ TexIdle
    /\ GraphIdle
    /\ ShadeIdle
    /\ SeedIdle
    /\ \E layers \in 3..PromoteLayers :
          \E i \in PromotionSites(layers) : PromoteStart(layers, i)

NextPromote == SynthPromote

SpecPromote == InitPromote /\ [][NextPromote]_vars

(***************************************************************************)
(* Seeding of the workers' generators: specification                       *)
(***************************************************************************)
InitSeed ==
    /\ PipeIdle
    /\ BvhIdle
    /\ RayIdle
    /\ TexIdle
    /\ GraphIdle
    /\ ShadeIdle
    /\ \E s \in ProgramSeeds, n \in 0..MaxSeedThreads : SeedStart(s, n)

NextSeed == SeedWorker

SpecSeed == InitSeed /\ [][NextSeed]_vars

(***************************************************************************)
(* Seeding of the workers' generators: properties                          *)
(***************************************************************************)
\* the workers that have seeded their generator
Seeded == 0..(Len(worker_seeds) - 1)

\* the number of trailing zero bits of a u128, 128 for zero
RECURSIVE TrailingZeroBits(_, _)
TrailingZeroBits(bytes, i) ==
    IF i = 0 THEN 0
    ELSE IF bytes[i] = 0 THEN 8 + TrailingZeroBits(bytes, i - 1)
    ELSE TrailingZeros(bytes[i])

\* 2^128 divides program_seed * (t1 - t2)
DifferenceWraps(t1, t2) ==
    TrailingZeroBits(program_seed, SeedBytes) + TrailingZeros(Abs(t1 - t2))
        >= 8 * SeedBytes

\* C29 as claimed: for every program seed any two distinct workers are
\* seeded with different values seed * (t + 123) mod 2^128.
C29_WorkerSeedsDistinct ==
    \A t1 \in Seeded : \A t2 \in Seeded :
        t1 # t2 => worker_seeds[t1 + 1] # worker_seeds[t2 + 1]

\* C29: two distinct workers t1, t2 are seeded with the same value exactly
\* when 2^128 divides seed * (t1 - t2); for an odd seed, the default seed
\* among them, the values of all workers differ, also when the product wraps.
C29_SeedsEqualOnlyIfDifferenceWraps ==
    \A t1 \in Seeded : \A t2 \in Seeded :
        t1 # t2 =>
            ((worker_seeds[t1 + 1] = worker_seeds[t2 + 1]) <=> DifferenceWraps(t1, t2))

C29_Witness ==
    /\ program_seed = DefaultSeed
    /\ Len(worker_seeds) = thread_count
    /\ thread_count >= 3
    /\ \A t \in Seeded : OverflowingMul(program_seed, t + 123).overflowed
    /\ \A t1 \in Seeded : \A t2 \in Seeded :
          t1 # t2 => worker_seeds[t1 + 1] # worker_seeds[t2 + 1]

(***************************************************************************)
(* TexImage: specification                                                 *)
(***************************************************************************)
InitTex ==
    /\ PipeIdle
    /\ BvhIdle
    /\ RayIdle
    /\ GraphIdle
    /\ ShadeIdle
    /\ SeedIdle
    /\ \E w \in 1..MaxTexW, h \in 1..MaxTexH :
          \E X \in (-SubPixel)..(w * SubPixel), Y \in (-SubPixel)..(h * SubPixel) :
              TexStart(w, h, X, Y)

NextTex ==
    \/ Sample
    \/ SampleShifted

SpecTex == InitTex /\ [][NextTex]_vars

(***************************************************************************)
(* Material graphs: specification                                          *)
(***************************************************************************)
InitGraph ==
    /\ PipeIdle
    /\ BvhIdle
    /\ RayIdle
    /\ TexIdle
    /\ ShadeIdle
    /\ SeedIdle
    /\ \E mat \in Materials : GraphStart(mat)

NextGraph ==
    \/ ImportMaterial
    \/ NewContext
    \/ EvaluateConstant
    \/ EvaluateNode
    \/ StoreResult
    \/ ReadResult
    \/ ReturnBsdf

SpecGraph == InitGraph /\ [][NextGraph]_vars

(***************************************************************************)
(* render_subpixel on the tree Bvh::new built: specification               *)
(***************************************************************************)
InitShade ==
    /\ PipeIdle
    /\ RayReady
    /\ TexIdle
    /\ GraphIdle
    /\ SeedIdle
    /\ \E scene \in MirrorScenes \cup ShadowScenes, camera \in Cameras :
          /\ BvhStart(scene, TRUE)
          /\ ShadeStart(camera.origin, camera.ray)

NextShade ==
    \/ Allocate
    \/ Leaves
    \/ SortLeaves
    \/ VisitNode
    \/ ShootReturn
    \/ RenderSubpixelCall
    \/ TraceRay
    \/ HitNothing
    \/ HitLight
    \/ HitTriangle
    \/ StartLights
    \/ NextLight
    \/ ShadowRay
    \/ ShadowResult
    \/ SamplesDone
    \/ LightsDone

SpecShade == InitShade /\ [][NextShade]_vars

(***************************************************************************)
(* Claims about the render pipeline                                        *)
(***************************************************************************)
CountIn(s, e) == Cardinality({i \in 1..Len(s) : s[i] = e})

TakenCount(r, p) ==
    Cardinality({ti \in Threads \X (1..Len(SampleOrder(cfg))) :
        ti[2] <= Len(taken[r][ti[1]]) /\ taken[r][ti[1]][ti[2]] = p})

PublishedFor(r, p) == {i \in 1..Len(published[r]) : published[r][i].src = p}

Terminated(r, t) == wpc[r][t] \in {"done", "panicked"}

\* C1: no sample is ever dequeued twice or published twice, every update is
\* published at (x >> A, y >> A) by the worker that dequeued its sample, and
\* when the pipeline has returned with want_quit unset and thread_count >= 1
\* every sample was dequeued by exactly one worker and published exactly
\* once: W*H*4^A updates in all.
C1_EverySampleOnce ==
    \A r \in runs :
        /\ \A i \in 1..Len(published[r]) :
              LET u == published[r][i] IN
                /\ u.x = u.src[1] \div Pow(2, cfg.a)
                /\ u.y = u.src[2] \div Pow(2, cfg.a)
                /\ CountIn(taken[r][u.by], u.src) = 1
                /\ Cardinality(PublishedFor(r, u.src)) = 1
                /\ TakenCount(r, u.src) = 1
        /\ (mainPc[r] = "returned" /\ ~want_quit[r] /\ cfg.threads >= 1) =>
              /\ Len(published[r]) = cfg.w * cfg.h * Pow(4, cfg.a)
              /\ \A k \in 1..Len(SampleOrder(cfg)) :
                    /\ TakenCount(r, SampleOrder(cfg)[k]) = 1
                    /\ Cardinality(PublishedFor(r, SampleOrder(cfg)[k])) = 1

C1_Witness ==
    /\ mainPc[1] = "returned"
    /\ ~want_quit[1]
    /\ cfg.threads = 2
    /\ cfg.a = 1
    /\ Len(published[1]) = 4
    /\ \A t \in {0, 1} : \E i \in 1..4 : published[1][i].by = t

\* The updates (x, y, colour) of a run, as the consumer sees them
PixelSeq(r) ==
    [i \in 1..Len(published[r]) |->
        <<published[r][i].x, published[r][i].y, published[r][i].color>>]
PixelSet(r) == {PixelSeq(r)[i] : i \in 1..Len(published[r])}
PositionCount(r, x, y) ==
    Cardinality({i \in 1..Len(published[r]) :
        published[r][i].x = x /\ published[r][i].y = y})
BothReturned == \A r \in runs : mainPc[r] = "returned"
IsPrefix(s, t) == Len(s) <= Len(t) /\ \A i \in 1..Len(s) : s[i] = t[i]

\* C8 as claimed: for every thread_count two runs on the same inputs publish
\* the same set of (x, y, colour).
C8_SameSetEveryThreadCount ==
    BothReturned => PixelSet(1) = PixelSet(2)

\* C8 amended: two runs on the same inputs publish every display position
\* the same number of times, and the same set of (x, y, colour) whenever
\* each worker dequeued the same tasks in the same order in both runs.
C8_SameSetSameAssignment ==
    BothReturned =>
        /\ \A i \in 1..Len(published[1]) :
              PositionCount(1, published[1][i].x, published[1][i].y)
                  = PositionCount(2, published[1][i].x, published[1][i].y)
        /\ Len(published[1]) = Len(published[2])
        /\ (taken[1] = taken[2] => PixelSet(1) = PixelSet(2))

C8_Witness ==
    /\ BothReturned
    /\ cfg.threads = 2
    /\ cfg.scene = "penumbra"
    /\ taken[1] = taken[2]
    /\ \A t \in {0, 1} : Len(taken[1][t]) = 1
    /\ PixelSeq(1) # PixelSeq(2)

\* C9: with thread_count = 1 two runs on the same inputs publish the same
\* sequence of updates with the same colours: at any moment one run's
\* sequence is a prefix of the other's, and they are equal at the end.
C9_SingleThreadSameSequence ==
    cfg.threads = 1 =>
        /\ IsPrefix(PixelSeq(1), PixelSeq(2)) \/ IsPrefix(PixelSeq(2), PixelSeq(1))
        /\ BothReturned => PixelSeq(1) = PixelSeq(2)

C9_Witness ==
    /\ cfg.threads = 1
    /\ cfg.scene = "penumbra"
    /\ BothReturned
    /\ Len(published[1]) = 2
    /\ published[1][1].color # published[1][2].color

\* The updates published after want_quit was stored
PostQuit(r) ==
    IF quitAt[r] = NoTask THEN {}
    ELSE (quitAt[r].pubLen + 1)..Len(published[r])

CancelBounded ==
    \A r \in runs : \A t \in Threads :
        LET mine == {i \in PostQuit(r) : published[r][i].by = t} IN
            /\ Cardinality(mine) <= 1
            /\ \A i \in mine : published[r][i].src = quitAt[r].inflight[t]

\* C10: once want_quit is set a worker publishes at most the pixel of the
\* sample it was rendering at that moment, nothing for a task it dequeues
\* afterwards, and it eventually terminates.
C10_CancelAtTaskBoundary ==
    /\ []CancelBounded
    /\ \A t \in Threads :
          (want_quit[1] /\ t < cfg.threads) ~> Terminated(1, t)

C10_Witness ==
    /\ want_quit[1]
    /\ \E t \in Threads :
          /\ wpc[1][t] = "done"
          /\ \E i \in PostQuit(1) : published[1][i].by = t
          /\ Len(taken[1][t]) > Cardinality({i \in 1..Len(published[1]) :
                                                published[1][i].by = t})

\* C28: no worker ever fails while publishing a pixel, whatever the display
\* thread does meanwhile (storing want_quit, returning and dropping its
\* receiver while a worker renders), so that no join re-raises a panic.
C28_SendNeverFails ==
    \A r \in runs : \A t \in Threads : wpc[r][t] # "panicked"

(***************************************************************************)
(* shoot_ray on the tree Bvh::new built: specification                     *)
(***************************************************************************)
InitRay ==
    /\ PipeIdle
    /\ RayReady
    /\ TexIdle
    /\ GraphIdle
    /\ ShadeIdle
    /\ SeedIdle
    /\ \E n \in 2..MaxRayObjects, p \in 1..MaxPattern : BvhStart(GenObjects(p, n), TRUE)

NextRay ==
    \/ Allocate
    \/ Leaves
    \/ SortLeaves
    \/ SynthCombine
    \/ SortLayer
    \/ ShootStart
    \/ VisitNode
    \/ ShootReturn

SpecRay == InitRay /\ [][NextRay]_vars

(***************************************************************************)
(* Bvh::new: properties                                                    *)
(***************************************************************************)
LeafSlots(ns) ==
    {c \in (0..(Len(ns) - 1)) \X (0..3) : NodeAt(ns, c[1]).value[c[2] + 1].tag = "Leaf"}

SlotsHolding(ns, o) ==
    {c \in LeafSlots(ns) : NodeAt(ns, c[1]).value[c[2] + 1].obj = o}

\* the leaves have been placed
LeavesPlaced == bpc \in {"sortleaves", "synth", "sortlayer", "done"} /\ nodes # <<>>

\* where the leaf loop put object o
PlacedAt(o) ==
    <<LayerStart(LayerCount(Len(objects)) - 1) + ((o - 1) \div 4), (o - 1) % 4>>

\* C3: once the leaves are placed, and after every sort_by_metric pass and
\* every promotion up to the returned tree, every input object is in exactly
\* one LEAF slot and there are objects.len() LEAF slots.
C3_EveryObjectInOneLeaf ==
    LeavesPlaced =>
        /\ \A o \in 1..Len(objects) : Cardinality(SlotsHolding(nodes, o)) = 1
        /\ Cardinality(LeafSlots(nodes)) = Len(objects)

\* a returned tree of three layers in which a sort or a promotion has moved
\* a leaf away from the slot the leaf loop gave it
C3_Witness ==
    /\ bpc = "done"
    /\ LayerCount(Len(objects)) = 3
    /\ \E o \in 1..Len(objects) : SlotsHolding(nodes, o) # {PlacedAt(o)}

Encloses(outer, inner) ==
    /\ \A d \in 1..3 : outer.min[d] <= inner.min[d]
    /\ \A d \in 1..3 : inner.max[d] <= outer.max[d]

\* the objects in the leaves of the subtree rooted at node i
RECURSIVE SubtreeObjects(_, _)
SubtreeObjects(ns, i) ==
    IF i >= Len(ns) THEN {}
    ELSE UNION {LET v == NodeAt(ns, i).value[k + 1] IN
                  IF v.tag = "Leaf" THEN {v.obj}
                  ELSE IF v.tag = "Node" THEN SubtreeObjects(ns, 4 * i + k + 1)
                  ELSE {} : k \in 0..3}

\* the objects below slot k of node i
SlotObjects(ns, i, k) ==
    LET v == NodeAt(ns, i).value[k + 1] IN
    IF v.tag = "Leaf" THEN {v.obj}
    ELSE IF v.tag = "Node" THEN SubtreeObjects(ns, 4 * i + k + 1)
    ELSE {}

\* C4: in the returned tree, and in every state of the construction after
\* the leaves are placed, the AABB of every non-empty slot k of every node i
\* encloses the AABB of every leaf below it (for an INNER slot the subtree at
\* node 4i+k+1), also after sorts and promotions moved slots and subtrees.
C4_SlotEnclosesSubtree ==
    LeavesPlaced =>
        \A i \in 0..(Len(nodes) - 1) : \A k \in 0..3 :
            \A o \in SlotObjects(nodes, i, k) :
                Encloses(GetAabb(NodeAt(nodes, i), k), CalculateAabb(objects[o]))

\* a returned tree of three layers whose root has an INNER slot over a
\* subtree that holds a leaf the sorts have moved
C4_Witness ==
    /\ bpc = "done"
    /\ LayerCount(Len(objects)) = 3
    /\ \E k \in 0..3 :
          /\ NodeAt(nodes, 0).value[k + 1].tag = "Node"
          /\ \E o \in SlotObjects(nodes, 0, k) : SlotsHolding(nodes, o) # {PlacedAt(o)}
          /\ Cardinality(SlotObjects(nodes, 0, k)) >= 5

\* C5: Bvh::new completes without a failure for every input of N >= 1
\* objects, N = 1 included, and the result has a root node at index 0.
C5_NonEmptyInputCompletes ==
    (bpc # "idle" /\ Len(objects) >= 1) =>
        /\ bpc # "failed"
        /\ bpc = "done" => Len(nodes) >= 1

\* C6: Bvh::new on no objects returns a single root node whose four slots
\* are EMPTY with the sentinel AABBs, and does not fail.
C6_EmptyInputSingleRoot ==
    (bpc # "idle" /\ Len(objects) = 0) =>
        /\ bpc # "failed"
        /\ bpc = "done" => nodes = <<SentinelNode>>

\* the lanes of a slot that was never written
SentinelAabb == GetAabb(SentinelNode, 0)

\* the slots of the array that are EMPTY, and those with the sentinel AABB
EmptySlots(ns) ==
    {ik \in (0..(Len(ns) - 1)) \X (0..3) : IsEmpty(NodeAt(ns, ik[1]).value[ik[2] + 1])}
SentinelSlots(ns) ==
    {ik \in (0..(Len(ns) - 1)) \X (0..3) : GetAabb(NodeAt(ns, ik[1]), ik[2]) = SentinelAabb}

\* C22: in the tree Bvh::new returns, and in every state of the
\* construction, a slot is EMPTY exactly when its AABB is the sentinel
\* min = +infinity, max = -infinity on the three axes: the leaf loop, the
\* parent synthesis, the sorts, the promotion and the subtree swaps write or
\* move the six lanes and the tag of a slot together.
C22_EmptyIffSentinel ==
    (bpc \in {"leaves", "sortleaves", "synth", "sortlayer", "done"}) =>
        EmptySlots(nodes) = SentinelSlots(nodes)

\* a returned tree of three layers with empty and non-empty slots, in which
\* a promotion took place and a sort moved slots between nodes
C22_Witness ==
    /\ bpc = "done"
    /\ LayerCount(Len(objects)) = 3
    /\ EmptySlots(nodes) # {}
    /\ \E k \in 0..3 : NodeAt(nodes, 0).value[k + 1].tag = "Node"
    /\ \E i \in 1..4 : \E k \in 0..3 : NodeAt(nodes, i).value[k + 1].tag = "Leaf"
    /\ \E o \in 1..Len(objects) : SlotsHolding(nodes, o) # {PlacedAt(o)}

\* the child paths of at most MaxPath steps
Paths == UNION {[1..n -> 0..3] : n \in 0..MaxPath}

\* the node reached from node i along the child path p: child k of i is
\* 4i + k + 1
RECURSIVE Descend(_, _)
Descend(i, p) == IF p = <<>> THEN i ELSE Descend(4 * i + p[1] + 1, Tail(p))

\* the positions of the array in the subtree rooted at r
Subtree(ns, r) == {Descend(r, p) : p \in Paths} \cap (0..(Len(ns) - 1))

\* how often the positions S of the array hold the node x
CountNode(ns, S, x) == Cardinality({j \in S : NodeAt(ns, j) = x})
SameNodes(ns, ms, S) ==
    \A j \in S : CountNode(ms, S, NodeAt(ns, j)) = CountNode(ns, S, NodeAt(ns, j))

\* the loop of Bvh::new is at a node whose child 0 holds something and whose
\* children 1 to 3 hold nothing: swap_tree_rec(4i + 1, i) is the next step
AtPromotion ==
    /\ InLayerLoop
    /\ ~AllEmpty(Child(next_i, 0))
    /\ \A k \in 1..3 : AllEmpty(Child(next_i, k))

\* the positions below i that the promoted subtree does not fill
Vacated(ns, i) ==
    Subtree(ns, i) \ {Descend(i, p) : p \in {q \in Paths : Descend(4 * i + 1, q) < Len(ns)}}

PromotionPreserves ==
    LET i == next_i
        from == 4 * next_i + 1
    IN  /\ \A p \in Paths :
              Descend(from, p) < Len(nodes) =>
                  NodeAt(nodes', Descend(i, p)) = NodeAt(nodes, Descend(from, p))
        /\ Len(nodes') = Len(nodes)
        /\ SameNodes(nodes, nodes', Subtree(nodes, i))
        /\ {NodeAt(nodes', j) : j \in Vacated(nodes, i)}
              = {NodeAt(nodes, j) :
                    j \in {i} \cup Subtree(nodes, 4 * i + 2) \cup Subtree(nodes, 4 * i + 3)
                              \cup Subtree(nodes, 4 * i + 4)}
        /\ \A j \in Vacated(nodes, i) : AllEmpty(NodeAt(nodes', j))
        /\ \A j \in (0..(Len(nodes) - 1)) \ Subtree(nodes, i) :
              NodeAt(nodes', j) = NodeAt(nodes, j)

\* C23: the promotion swap_tree_rec(4i + 1, i) preserves the subtree: the
\* node reached from i along any child path is afterwards the node that was
\* reached from 4i + 1 along that path, the array holds the same nodes as
\* before, the former content of i and of its empty children 4i + 2 to
\* 4i + 4 is in the positions the subtree left, and nothing outside the
\* subtree of i is touched.
C23_PromotionPreservesSubtree == [][AtPromotion => PromotionPreserves]_vars

\* a promotion in layer 1 of a tree of five layers has just moved child 0
\* with a subtree of three layers: a node two steps below the promoted node
\* holds what was three steps below it, and the positions the subtree left
\* are empty
C23_Witness ==
    /\ bpc = "sortlayer"
    /\ LayerCount(Len(objects)) = 5
    /\ layer = 1
    /\ layer_real_end = next_i + 1
    /\ NodeAt(nodes, Descend(next_i, <<1, 2>>)).value[1].tag = "Leaf"
    /\ Vacated(nodes, next_i) # {}
    /\ \A j \in Vacated(nodes, next_i) : AllEmpty(NodeAt(nodes, j))

\* the call of sort_by_metric that is the next step: its range [from, to)
AtSort == bpc \in {"sortleaves", "sortlayer"} /\ LayerCount(Len(objects)) > 0
SortRangeFrom ==
    IF bpc = "sortleaves" THEN LayerStart(LayerCount(Len(objects)) - 1) ELSE LayerStart(layer)
SortRangeTo == IF bpc = "sortleaves" THEN LeafesEnd(Len(objects)) ELSE layer_real_end

\* a slot together with the subtree at its child node, path by path
Carried(ns, s) ==
    [slot |-> SlotOf(NodeAt(ns, s[1]), s[2]),
     below |-> [p \in {q \in Paths : Descend(4 * s[1] + s[2] + 1, q) < Len(ns)} |->
                  NodeAt(ns, Descend(4 * s[1] + s[2] + 1, p))]]

NonEmptyCount(node) == Cardinality({k \in 1..4 : ~IsEmpty(node.value[k])})

\* the positions of the nodes from..to-1 and of the nodes below them
RangeAndBelow(ns, from, to) == UNION {Subtree(ns, i) : i \in from..(to - 1)}

SortPermutes ==
    LET from == SortRangeFrom
        to == SortRangeTo
        slots == (from..(to - 1)) \X (0..3)
        before == [s \in slots |-> Carried(nodes, s)]
        after == [s \in slots |-> Carried(nodes', s)]
    IN  /\ Len(nodes') = Len(nodes)
        /\ \A s \in slots :
              Cardinality({t \in slots : after[t] = before[s]})
                  = Cardinality({t \in slots : before[t] = before[s]})
        /\ \A i \in from..(to - 1) :
              NonEmptyCount(NodeAt(nodes', i)) = NonEmptyCount(NodeAt(nodes, i))
        /\ \A j \in (0..(Len(nodes) - 1)) \ RangeAndBelow(nodes, from, to) :
              NodeAt(nodes', j) = NodeAt(nodes, j)

\* C24: sort_by_metric(nodes, from, to) only permutes the slots of the
\* layer [from, to): the slots of the layer, each taken with the subtree at
\* its child node, are the same after the pass as before it with the same
\* multiplicities, so that a slot that moved has its own former subtree at
\* its new child node 4i + k + 1; every node keeps its number of non-empty
\* slots; and the nodes outside the layer and its descendants are untouched.
C24_SortPermutesLayer == [][(AtSort /\ bpc' # "failed") => SortPermutes]_vars

\* the array as the leaf pass left it: the leaves placed and sorted
LeafPassResult ==
    SortByMetric(PlaceLeaves([j \in 1..Len(nodes) |-> SentinelNode], objects,
                             LayerStart(LayerCount(Len(objects)) - 1), 0),
                 LayerStart(LayerCount(Len(objects)) - 1), LeafesEnd(Len(objects))).nodes

\* layer 1 of a tree of three layers has just been sorted, and a leaf node
\* is no longer below the node of layer 1 it was below after the leaf pass:
\* it moved with a slot of its former parent
C24_Witness ==
    /\ bpc = "synth"
    /\ LayerCount(Len(objects)) = 3
    /\ layer = 0
    /\ \E j \in 5..20 : \E j2 \in 5..20 :
          /\ ~AllEmpty(NodeAt(nodes, j2))
          /\ NodeAt(nodes, j2) = NodeAt(LeafPassResult, j)
          /\ (j2 - 1) \div 4 # (j - 1) \div 4
          /\ NodeAt(nodes, (j2 - 1) \div 4).value[((j2 - 1) % 4) + 1].tag = "Node"

\* BvhNode::value: the nodes a traversal from node i comes to, following
\* the INNER slots to 4i + k + 1
RECURSIVE ReachedFrom(_, _)
ReachedFrom(ns, i) ==
    IF i >= Len(ns) THEN {}
    ELSE {i} \cup UNION {IF NodeAt(ns, i).value[k + 1].tag = "Node"
                         THEN ReachedFrom(ns, 4 * i + k + 1)
                         ELSE {} : k \in 0..3}

TagAt(ns, i, k) == NodeAt(ns, i).value[k + 1].tag

\* C26: in the tree Bvh::new returns for two or more objects, every LEAF
\* slot is in a node that is reached from the root by following INNER slots
\* with the child rule 4i + k + 1, the child index of every INNER slot is
\* inside the array and names a node with a non-empty slot, and the node
\* below a LEAF or EMPTY slot holds nothing.
C26_TreeIsConnected ==
    (bpc = "done" /\ Len(objects) >= 2) =>
        \A i \in 0..(Len(nodes) - 1) : \A k \in 0..3 :
            /\ TagAt(nodes, i, k) = "Leaf" => i \in ReachedFrom(nodes, 0)
            /\ TagAt(nodes, i, k) = "Node" =>
                  /\ 4 * i + k + 1 < Len(nodes)
                  /\ ~AllEmpty(NodeAt(nodes, 4 * i + k + 1))
            /\ (TagAt(nodes, i, k) # "Node" /\ 4 * i + k + 1 < Len(nodes)) =>
                  AllEmpty(NodeAt(nodes, 4 * i + k + 1))

\* a returned tree of four layers in which a node above the leaf layer has
\* a LEAF slot (a promotion took place) beside an INNER slot
C26_Witness ==
    /\ bpc = "done"
    /\ LayerCount(Len(objects)) = 4
    /\ \E i \in ReachedFrom(nodes, 0) :
          /\ i < LayerStart(3)
          /\ \E k \in 0..3 : TagAt(nodes, i, k) = "Leaf"
          /\ \E k \in 0..3 : TagAt(nodes, i, k) = "Node"

\* the empty slots of the range that is about to be sorted are in its last
\* node
EmptyOnlyInLast ==
    \A i \in SortRangeFrom..(SortRangeTo - 2) : NonEmptyCount(NodeAt(nodes, i)) = 4

\* C27: the assertion of sort_by_metric, that an empty slot is met only in
\* the last node to - 1 of the range, holds in every call Bvh::new makes:
\* after the leaves are placed and after each of the three cases of the
\* parent synthesis, the promotion and the early break included, the empty
\* slots of the range are in its last node, and no pass fails.
C27_SortAssertionHolds ==
    /\ failure # "assertion failed: i == to - 1"
    /\ AtSort => EmptyOnlyInLast

\* a parent layer of a tree of four layers has just been sorted; its range
\* was more than one node and its last node has empty slots beside others
C27_Witness ==
    /\ bpc = "synth"
    /\ LayerCount(Len(objects)) = 4
    /\ next_i = LayerStart(layer)
    /\ layer <= 1
    /\ \E j \in (LayerStart(layer + 1) + 1)..(LayerStart(layer + 2) - 1) :
          /\ NonEmptyCount(NodeAt(nodes, j)) \in 1..3
          /\ NonEmptyCount(NodeAt(nodes, j - 1)) = 4

(***************************************************************************)
(* shoot_ray: properties                                                   *)
(***************************************************************************)
\* the intersection of the call's ray with object j, tested on its own
BruteLambda(j) ==
    IF objects[j].kind = "Triangle"
    THEN TriangleLambda(objects[j], shot.ray_origin, shot.ray)
    ELSE SphereLambda(objects[j], shot.ray_origin, shot.ray)

\* object j has an accepted intersection with lambda in [min_dist, max_dist]
BruteAccepts(j) ==
    LET lambda == BruteLambda(j) IN
    /\ IsFinite(lambda)
    /\ Le(shot.min_dist, lambda)
    /\ Le(lambda, shot.max_dist)
    /\ objects[j].kind = "Triangle" =>
           BarycentricSumIsOne(objects[j], shot.ray_origin, shot.ray, lambda)

BruteHits == {j \in 1..Len(objects) : BruteAccepts(j)}

\* C2: shoot_ray on the tree Bvh::new built returns a hit exactly when the
\* test of every object on its own finds an accepted intersection with
\* lambda in [lambda_min, lambda_max], a hit at exactly lambda_max included,
\* and the lambda returned is the least of them.
C2_TraversalIsBruteForce ==
    rpc = "returned" =>
        /\ result # NoResult <=> BruteHits # {}
        /\ result # NoResult =>
              /\ \A j \in BruteHits : Le(result.lambda, BruteLambda(j))
              /\ \E j \in BruteHits :
                    Le(BruteLambda(j), result.lambda) /\ Le(result.lambda, BruteLambda(j))

\* C7: every hit returned, on a triangle or on a light sphere, has
\* lambda_min <= lambda <= lambda_max for the bounds of the call.
C7_HitWithinBounds ==
    (rpc = "returned" /\ result # NoResult) =>
        /\ Le(shot.min_dist, result.lambda)
        /\ Le(result.lambda, shot.max_dist)

(***************************************************************************)
(* Pipeline: termination and sample order                                  *)
(***************************************************************************)
\* a worker has left its loop only on an empty queue or with want_quit set,
\* and the pipeline has returned only with every worker ended and joined
ExitsInOrder ==
    /\ \A t \in Threads :
          Terminated(1, t) => (queue[1] = <<>> \/ want_quit[1])
    /\ mainPc[1] = "returned" =>
          \A t \in Threads : t < cfg.threads => wpc[1][t] = "done"

\* C11: under fair scheduling every worker of a pipeline whose BVH was
\* built is spawned and eventually terminates; a worker
\* exits only when try_recv finds the queue empty or want_quit is set, none
\* exits while tasks remain and want_quit is unset, and the pipeline returns
\* only after every worker has been joined.
C11_WorkersTerminateThenReturn ==
    /\ []ExitsInOrder
    /\ \A t \in Threads :
          (t < cfg.threads /\ mainPc[1] \notin {"build", "panicked"}) ~> Terminated(1, t)

\* the pipeline returned, never cancelled, after two workers shared the work
C11_Witness ==
    /\ mainPc[1] = "returned"
    /\ ~want_quit[1]
    /\ cfg.threads = 2
    /\ \A t \in 0..1 : wpc[1][t] = "done" /\ taken[1][t] # <<>>

\* the order of the claim: the larger min(tz(x), tz(y)) first, then the
\* smaller x, then the smaller y
ZerosKey(p) == Min2(TrailingZeros(p[1]), TrailingZeros(p[2]))

CoarserFirst(p, q) ==
    \/ ZerosKey(p) > ZerosKey(q)
    \/ /\ ZerosKey(p) = ZerosKey(q)
       /\ p[1] < q[1] \/ (p[1] = q[1] /\ p[2] < q[2])

\* C12: the queue holds the samples coarse to fine, so whatever has been
\* dequeued, by whichever worker, comes before everything still queued, and
\* every worker's own tasks come in that order.
C12_CoarseToFineOrder ==
    /\ \A i, j \in 1..Len(queue[1]) :
          CoarserFirst(queue[1][i], queue[1][j]) => i < j
    /\ \A t \in Threads : \A i \in 1..Len(taken[1][t]) :
          /\ \A j \in 1..Len(queue[1]) : ~CoarserFirst(queue[1][j], taken[1][t][i])
          /\ \A j \in 1..Len(taken[1][t]) :
                CoarserFirst(taken[1][t][i], taken[1][t][j]) => i < j

\* two workers have both dequeued from a queue of four samples, (0,0) first
C12_Witness ==
    /\ cfg.a = 1
    /\ cfg.threads = 2
    /\ queue[1] = <<>>
    /\ \A t \in 0..1 : taken[1][t] # <<>>
    /\ \E t \in 0..1 : taken[1][t][1] = <<0, 0>>

\* the samples in the order they leave the queue, for one worker
DequeueOrder == taken[1][0] \o queue[1]

OrderCase ==
    /\ cfg.a = 1 /\ cfg.w = 2 /\ cfg.h = 2 /\ cfg.threads = 1
    /\ mainPc[1] \notin {"build", "push"}

\* C13 as stated: with A = 1 and W = H = 2 the first four samples are
\* (0,0), (2,0), (0,2), (2,2).
C13_FirstFourAsStated ==
    OrderCase => SubSeq(DequeueOrder, 1, 4) = <<<<0, 0>>, <<2, 0>>, <<0, 2>>, <<2, 2>>>>

\* C13: with A = 1 and W = H = 2 the first four samples are (0,0), (0,2),
\* (2,0), (2,2): the three of key 1 by x ascending, then y ascending.
C13_FirstFourByXThenY ==
    OrderCase => SubSeq(DequeueOrder, 1, 4) = <<<<0, 0>>, <<0, 2>>, <<2, 0>>, <<2, 2>>>>

\* the worker has dequeued the first four of the sixteen samples
C13_Witness ==
    /\ OrderCase
    /\ Len(taken[1][0]) = 4
    /\ Len(queue[1]) = 12


(***************************************************************************)
(* Claims about texture sampling                                           *)
(***************************************************************************)
Sampled == tpc \in {"sampled", "shifted"}

\* the reads of both samples
GetsDone ==
    {tex_out.gets[k] : k \in 1..Len(tex_out.gets)}
        \cup {tex_shifted_out.gets[k] : k \in 1..Len(tex_shifted_out.gets)}

\* C14: real_mod(num, mod_by) is in 0..mod_by-1 and congruent to num modulo
\* mod_by for every num, negative multiples of mod_by included, so
\* image.get is never called with x >= W or y >= H.
C14_RealModIsEuclidean ==
    \A g \in GetsDone :
        /\ g.x \in 0..(image.w - 1)
        /\ g.y \in 0..(image.h - 1)
        /\ (g.x - g.nx) % image.w = 0
        /\ (g.y - g.ny) % image.h = 0

\* C15: the result at (x, y) equals the result at (x + k*W, y + j*H) for
\* all k, j in -MaxShift..MaxShift, wherever (x, y) lies.
C15_SamplingIsPeriodic ==
    tpc = "shifted" =>
        /\ ~tex_out.panicked
        /\ ~tex_shifted_out.panicked
        /\ tex_shifted_out.outputs = tex_out.outputs

IsPixelCentre ==
    /\ tex_pos[1] % SubPixel = HalfSteps
    /\ tex_pos[2] % SubPixel = HalfSteps
    /\ tex_pos[1] \in 0..(image.w * SubPixel)
    /\ tex_pos[2] \in 0..(image.h * SubPixel)

CentrePixel == ImageGet(image, tex_pos[1] \div SubPixel, tex_pos[2] \div SubPixel)

\* C16: the sample at the pixel centre (i + 0.5, j + 0.5), 0 <= i < W and
\* 0 <= j < H, is the stored pixel image.get(i, j): the weight of that
\* pixel is one and the three other weights are zero.
C16_PixelCentreIsExact ==
    (Sampled /\ IsPixelCentre) =>
        /\ ~tex_out.panicked
        /\ tex_out.weights = <<SubPixel * SubPixel, 0, 0, 0>>
        /\ tex_out.outputs[1] = Vec4Scale(CentrePixel, SubPixel * SubPixel)
        /\ tex_out.outputs[2] = CentrePixel[4] * SubPixel * SubPixel
        /\ tex_out.gets[1].x = tex_pos[1] \div SubPixel
        /\ tex_out.gets[1].y = tex_pos[2] \div SubPixel

C16_Witness ==
    /\ Sampled
    /\ IsPixelCentre
    /\ image.w > 1
    /\ image.h > 1
    /\ tex_pos[1] \div SubPixel = image.w - 1
    /\ tex_pos[2] \div SubPixel = image.h - 1
    /\ ~tex_out.panicked

\* the weight of each column and each row of the four pixels, out of
\* SubPixel: the four products summed over the other axis
AxisWeights(w) ==
    [x0 |-> (w[1] + w[3]) \div SubPixel, x1 |-> (w[2] + w[4]) \div SubPixel,
     y0 |-> (w[1] + w[2]) \div SubPixel, y1 |-> (w[3] + w[4]) \div SubPixel]

\* floor(x - 0.5) in whole pixels
FloorOfLessHalf(X) == (X - HalfSteps) \div SubPixel

WeightsConvex ==
    ~tex_out.panicked =>
        LET a == AxisWeights(tex_out.weights)
        IN  /\ \A v \in {a.x0, a.x1, a.y0, a.y1} : v \in 0..SubPixel
            /\ a.x0 + a.x1 = SubPixel
            /\ a.y0 + a.y1 = SubPixel

PixelsAtFloor ==
    \A k \in 1..Len(tex_out.gets) :
        /\ tex_out.gets[k].x =
              (FloorOfLessHalf(tex_pos[1]) + <<0, 1, 0, 1>>[k]) % image.w
        /\ tex_out.gets[k].y =
              (FloorOfLessHalf(tex_pos[2]) + <<0, 0, 1, 1>>[k]) % image.h

\* C30: at every sample position, also below 0.5 and below zero, the two
\* horizontal and the two vertical weights lie in [0, 1] and sum to 1, and
\* the pixels read are those at floor(x - 0.5) and floor(x - 0.5) + 1,
\* wrapped, in each axis.
C30_WeightsConvexPixelsAtFloor ==
    Sampled => (WeightsConvex /\ PixelsAtFloor)


(***************************************************************************)
(* Claims about material graphs                                            *)
(***************************************************************************)
\* node i has a socket linked to an output of node j
LinkEdges(mat) ==
    {ij \in (1..Len(mat)) \X (1..Len(mat)) :
        \E k \in 1..Len(mat[ij[1]].sockets) :
            /\ mat[ij[1]].sockets[k].type = "LINK"
            /\ mat[ij[1]].sockets[k].from_node = ij[2] - 1}

Ends(E) == {e[1] : e \in E} \cup {e[2] : e \in E}

\* the pairs joined by a path of at most n + 1 edges
RECURSIVE ReachIn(_, _)
ReachIn(E, n) ==
    IF n = 0
    THEN E
    ELSE LET R == ReachIn(E, n - 1)
         IN  R \cup {xy \in Ends(E) \X Ends(E) :
                        \E m \in Ends(E) : <<xy[1], m>> \in R /\ <<m, xy[2]>> \in E}

IsCyclic(mat) == \E i \in 1..Len(mat) : <<i, i>> \in ReachIn(LinkEdges(mat), Len(mat))

Evaluating == gpc \in {"evaluating", "returned", "panicked", "overflow"}

\* the links of the graph that name node i
LinksTo(i) ==
    {jk \in (1..Len(graph.nodes)) \X (1..3) :
        /\ jk[2] <= Len(graph.nodes[jk[1]].inputs)
        /\ graph.nodes[jk[1]].inputs[jk[2]].link = "Node"
        /\ graph.nodes[jk[1]].inputs[jk[2]].idx = i - 1}

EvaluatedOnce ==
    (Evaluating /\ ~IsCyclic(material)) =>
        \A i \in 1..Len(graph.nodes) :
            /\ evaluations[i] <= 1
            /\ node_results[i] # NoCache => evaluations[i] = 1

\* a stored result stays as it is for the rest of the context
CacheKept ==
    (contexts' = contexts) =>
        \A i \in 1..Len(node_results) :
            node_results[i] # NoCache => node_results'[i] = node_results[i]

\* the context of the next invocation has no result
CacheFresh ==
    (contexts' # contexts) =>
        \A i \in 1..Len(node_results') :
            node_results'[i] = NoCache /\ evaluations'[i] = 0

\* C19: in one context of an acyclic graph every node's evaluate runs at
\* most once however many links name the node, a stored result is what
\* later requests read, and the context made for the next shading
\* invocation starts with no stored result.
C19_EachNodeEvaluatedOnce == []EvaluatedOnce /\ [][CacheKept /\ CacheFresh]_vars

C19_Witness ==
    /\ gpc = "returned"
    /\ contexts = MaxContexts
    /\ ~IsCyclic(material)
    /\ \E i \in 1..Len(graph.nodes) :
          /\ Cardinality(LinksTo(i)) >= 2
          /\ evaluations[i] = 1
          /\ node_results[i] # NoCache

\* C20: a material whose links form a cycle is refused by import with an
\* error: it is never imported, so evaluate_link neither recurses on it
\* without end nor returns a BSDF for it.
C20_CyclicGraphIsRejected ==
    IsCyclic(material) => gpc \in {"file", "rejected"}

\* the link the top frame is about to read names a stored output of another
\* type than the type the link is read as
MistypedTop ==
    /\ call_stack # <<>>
    /\ TopPending
    /\ TopLink.link = "Node"
    /\ node_results[TopLink.idx + 1] # NoCache
    /\ node_results[TopLink.idx + 1][TopLink.socket + 1].ty # TopType

\* reading it ends the evaluation in the panic of from_output: the value is
\* handed to no node and no Bsdf is returned
MistypedPanics ==
    (gpc = "evaluating" /\ MistypedTop) =>
        /\ gpc' = "panicked"
        /\ call_stack' = call_stack
        /\ bsdf' = bsdf
        /\ node_results' = node_results

\* the panic is the end of the evaluation
PanicIsFinal == (gpc = "panicked") => (gpc' = "panicked" /\ bsdf' = bsdf)

\* the links of node i that were evaluated when its result was stored
TypedInputs(i) ==
    \A k \in 1..Len(graph.nodes[i].inputs) :
        LET l == graph.nodes[i].inputs[k]
        IN  l.link = "Node" =>
                /\ node_results[l.idx + 1] # NoCache
                /\ node_results[l.idx + 1][l.socket + 1].ty
                      = SocketType(InputSockets(graph.nodes[i].type)[k])

\* every stored result, and so the Bsdf that is returned, was made of
\* outputs of the type their links declare
StoredFromTyped ==
    Evaluating =>
        /\ \A i \in 1..Len(node_results) : node_results[i] # NoCache => TypedInputs(i)
        /\ gpc = "returned" =>
              /\ node_results[graph.output_index + 1] # NoCache
              /\ node_results[graph.output_index + 1][1].ty = "Bsdf"

\* C21: evaluating a link whose producer socket yields a value of another
\* type than the link declares (a Link<Vec4> at the f64 ALPHA output, a
\* Link<Bsdf> at a TexImage colour) raises the type error of from_output:
\* the value is never coerced and no Bsdf is produced from it.
C21_MistypedLinkIsTypeError == []StoredFromTyped /\ [][MistypedPanics /\ PanicIsFinal]_vars

C21_Witness ==
    /\ gpc = "panicked"
    /\ MistypedTop
    /\ TopType = "Vec4"
    /\ node_results[TopLink.idx + 1][TopLink.socket + 1].ty = "F64"
    /\ graph.nodes[TopLink.idx + 1].type = "TEX_IMAGE"

(***************************************************************************)
(* Claims about shading                                                    *)
(***************************************************************************)
\* C17: handle_ray recurses into a reflected ray at most once per primary
\* ray: besides the call for the primary ray there is at most the call for
\* its reflected ray, whose own hit spawns no further reflection, whatever
\* the specular and metallic values of the surfaces.
C17_AtMostOneReflection == Len(frames) <= 2

\* the calls of handle_ray in progress: call k was made with
\* 1024 - (k - 1) bounces left, never with usize::MAX (the wrap of 0 - 1)
BouncesCounted ==
    \A k \in 1..Len(frames) :
        /\ frames[k].max_bounces = PrimaryBounces - (k - 1)
        /\ frames[k].max_bounces >= 0

\* a call with max_bounces = 0 makes no call: once it has its material the
\* material has specular = 0 and metallic = 0, and it is the innermost call
LastBounceIsFlat ==
    \A k \in 1..Len(frames) :
        frames[k].max_bounces = 0 =>
            /\ k = Len(frames)
            /\ frames[k].pc # "reflecting"
            /\ frames[k].pc \notin {"call", "traced"} =>
                  (frames[k].bsdf.specular = RZero /\ frames[k].bsdf.metallic = RZero)

\* a call of handle_ray calls handle_ray at most once: a call is waiting for
\* its reflected ray only from the moment it hit a triangle, and a step
\* adds at most one call to the calls in progress
OneCallPerFrame ==
    /\ Len(frames') <= Len(frames) + 1
    /\ \A k \in 1..Len(frames') :
          (frames'[k].pc = "reflecting") =>
              /\ k <= Len(frames)
              /\ \/ frames[k].pc = "reflecting"
                 \/ k = Len(frames) /\ frames[k].pc = "traced" /\ Len(frames') = k + 1

\* C25: handle_ray never recurses when called with max_bounces = 0: the
\* material is then forced to specular = 0 and metallic = 0, so
\* max_bounces - 1 is never evaluated at 0 and the assertion
\* max_bounces != usize::MAX holds in every call; and the recursion
\* render_subpixel starts with 1024 ends: every call makes at most one call,
\* with one bounce less, and none at 0, so there are never more than 1025
\* calls in progress.
C25_RecursionEndsAtZero ==
    [](BouncesCounted /\ LastBounceIsFlat) /\ [][OneCallPerFrame]_vars

\* the call with max_bounces = 0 has hit a triangle whose material reflects
\* and goes on without a call for the reflected ray
C25_Witness ==
    /\ spc = "running"
    /\ Len(frames) = PrimaryBounces + 1
    /\ Top.max_bounces = 0
    /\ Top.pc = "diffuse"
    /\ Top.hit.obj # 0
    /\ Reflects(EvaluateMaterial(objects[Top.hit.obj]))
    /\ ~Reflects(Top.bsdf)

\* the shadow ray of the last sample has returned and the sample is judged
ShadowJudged ==
    /\ spc = "running"
    /\ Top.pc = "sample"
    /\ Top.sample > 0
    /\ rpc = "returned"

\* the triangles that intersect the shadow ray with lambda in [eps, 1]
ShadowTriangles == {j \in BruteHits : objects[j].kind = "Triangle"}

\* C18: a shadow sample is skipped as occluded exactly when some triangle
\* intersects the shadow ray with lambda in [eps, 1], also when a light
\* sphere is hit at a smaller lambda than that triangle; hits on light
\* spheres alone never occlude.
C18_TriangleOccludes ==
    ShadowJudged => (shadow.occluded <=> ShadowTriangles # {})

====
